---- MODULE Spec2Model ----
(***************************************************************************)
(* Automations engine of craft-agents: the AutomationManager (run          *)
(* admission, tracking, timeout, finalisation), the automations storage    *)
(* (automation and run records) and the TriggerRegistry.                   *)
(*                                                                         *)
(* One action per handler.  An async method is one action per              *)
(* run-to-completion segment: the synchronous prefix up to its first       *)
(* await, and one action per settlement of an awaited promise.             *)
(***************************************************************************)
EXTENDS Integers, Sequences, FiniteSets, Bags, TLC

\* ------------------------------------------------------------------ bounds
MaxRuns == 3          \* run records ever created (generateId is fresh)
MaxTracked == 2       \* run records created where every handler may run
MaxFired == 2         \* onTrigger callbacks kept in the registry's log
MaxChanges == 3       \* events fs.watch reports
MaxClock == 3         \* milliseconds the clock is read at every moment of

\* ------------------------------------------------------- program constants
maxConcurrentRuns == 2
NoTime == -1          \* completedAt: null
NoSession == 0        \* sessionId: null; also a session no automation owns

NULL == "null"
TimedOutMsg == "Automation timed out"
ShutdownMsg == "App shutting down"
UpdateFailedMsg == "Failed to update run record"
CreateSessionErr == "createSession rejected"
SetSourcesErr == "setSessionSources rejected"
SendMessageErr == "sendMessage rejected"
SessionErr == "session error"

RunIds == 1..MaxRuns
\* createSession returns a fresh id: the session of the call that owns run r
SessionOf(r) == r
SessionIds == {SessionOf(r) : r \in RunIds}
AutomationIds == {"a1", "a2"}
Workspaces == {"ws1"}
WorkspaceInputs == {"ws1", "nows"}
TriggeredByInputs == {"manual"}
EventTypes == {"complete", "error", "text_delta"}
TerminalStatuses == {"success", "failure", "cancelled"}

VARIABLES
  lifecycle,      \* "constructed" | "initialized" | "cleaned"
  now,            \* wall clock
  automations,    \* config.json: automation id -> Automation
  runs,           \* runs/{id}.json: run id -> AutomationRun
  nextRunId,      \* next id generateId() hands to createRun
  calls,          \* executeAutomation invocations, by the run they created
  cancels,        \* cancelRun invocations suspended at cancelProcessing
  activeRuns,     \* AutomationManager.activeRuns
  sessionToRun,   \* AutomationManager.sessionToRun
  timers,         \* host timer behind each ActiveRun.timeoutTimer
  broadcasts,     \* per run, the AUTOMATION_EVENT / AUTOMATIONS_CHANGED sent
  shutdownRuns,   \* runs cleanup() found in activeRuns
  triggers,       \* TriggerRegistry.triggers
  subscriptions,  \* host side: live cron jobs, shortcuts and listeners (a bag)
  fired,          \* the calls the onTrigger callback has received (a bag)
  contexts,       \* the triggerContext of file-change and clipboard calls
  closures,       \* per automation, what its file-change closure holds
  pollers,        \* per automation, what its clipboard closure holds
  clipboard,      \* host side: clipboard.readText()
  emitted         \* host side: the events fs.watch has reported

vars == <<lifecycle, now, automations, runs, nextRunId, calls,
          cancels, activeRuns, sessionToRun, timers, broadcasts,
          shutdownRuns, triggers, subscriptions, fired, contexts,
          closures, pollers, clipboard, emitted>>

\* --------------------------------------------------------------- storage
Merge(rec, updates) ==
  [f \in DOMAIN rec |-> IF f \in DOMAIN updates THEN updates[f] ELSE rec[f]]

Put(f, k, v) == [x \in (DOMAIN f) \cup {k} |-> IF x = k THEN v ELSE f[x]]

Remove(f, ks) == [x \in (DOMAIN f) \ ks |-> f[x]]

getAutomation(autos, automationId) == automationId \in DOMAIN autos

\* createRun stamping the completion time at creation
createRunCompleted(automationId, triggeredBy, time) ==
  [ automationId |-> automationId,
    status       |-> "pending",
    triggeredBy  |-> triggeredBy,
    startedAt    |-> time,
    completedAt  |-> time,
    sessionId    |-> NoSession,
    error        |-> NULL ]

createRun(automationId, triggeredBy, time) ==
  [ automationId |-> automationId,
    status       |-> "pending",
    startedAt    |-> time,
    completedAt  |-> NoTime,
    sessionId    |-> NoSession,
    error        |-> NULL,
    triggeredBy  |-> triggeredBy ]

\* updateRun returns null when the record is missing
updateRunFound(rs, runId) == runId \in DOMAIN rs

updateRun(rs, runId, updates) == Merge(rs[runId], updates)

\* the statistics update that copies every run status into lastStatus
updateAutomationAfterRunCopiesStatus(autos, automationId, run, time) ==
  IF automationId \notin DOMAIN autos THEN autos
  ELSE LET automation == autos[automationId] IN
    Put(autos, automationId,
      Merge(automation,
        [ lastRunAt  |-> IF run.completedAt # NoTime THEN run.completedAt
                         ELSE run.startedAt,
          lastStatus |-> run.status,
          runCount   |-> automation.runCount + 1,
          updatedAt  |-> time ]))

updateAutomationAfterRun(autos, automationId, run, time) ==
  IF automationId \notin DOMAIN autos THEN autos
  ELSE LET automation == autos[automationId] IN
    Put(autos, automationId,
      Merge(automation,
        [ lastRunAt  |-> IF run.completedAt # NoTime THEN run.completedAt
                         ELSE run.startedAt,
          lastStatus |-> IF run.status = "success" THEN "success"
                         ELSE IF run.status = "failure" THEN "failure"
                         ELSE IF run.status = "running" THEN "running"
                         ELSE automation.lastStatus,
          runCount   |-> automation.runCount + 1,
          updatedAt  |-> time ]))

loadRuns(rs, automationId) ==
  {r \in DOMAIN rs : rs[r].automationId = automationId}

\* ------------------------------------------------------ manager helpers
Ev(type, run) == [type |-> type, status |-> run.status, error |-> run.error]

AutomationsChanged ==
  [type |-> "automations_changed", status |-> NULL, error |-> NULL]

\* The program state as one value.  A handler is an operator from the state
\* it is entered in to the state it leaves; `result` is what it returned or
\* threw and `requests` the calls it made on the session manager.
This ==
  [ lifecycle    |-> lifecycle,
    now          |-> now,
    automations  |-> automations,
    runs         |-> runs,
    nextRunId    |-> nextRunId,
    calls        |-> calls,
    cancels      |-> cancels,
    activeRuns   |-> activeRuns,
    sessionToRun |-> sessionToRun,
    timers       |-> timers,
    broadcasts   |-> broadcasts,
    shutdownRuns |-> shutdownRuns,
    triggers     |-> triggers,
    subscriptions |-> subscriptions,
    fired        |-> fired,
    contexts     |-> contexts,
    closures     |-> closures,
    pollers      |-> pollers,
    clipboard    |-> clipboard,
    emitted      |-> emitted,
    result       |-> NULL,
    requests     |-> {} ]

\* the state after a handler: m is evaluated once
Becomes(m) ==
  \E s \in {m} :
    /\ lifecycle' = s.lifecycle
    /\ now' = s.now
    /\ automations' = s.automations
    /\ runs' = s.runs
    /\ nextRunId' = s.nextRunId
    /\ calls' = s.calls
    /\ cancels' = s.cancels
    /\ activeRuns' = s.activeRuns
    /\ sessionToRun' = s.sessionToRun
    /\ timers' = s.timers
    /\ broadcasts' = s.broadcasts
    /\ shutdownRuns' = s.shutdownRuns
    /\ triggers' = s.triggers
    /\ subscriptions' = s.subscriptions
    /\ fired' = s.fired
    /\ contexts' = s.contexts
    /\ closures' = s.closures
    /\ pollers' = s.pollers
    /\ clipboard' = s.clipboard
    /\ emitted' = s.emitted

Returns(m, value) == [m EXCEPT !.result = value]

Requests(m, call, sessionId) ==
  [m EXCEPT !.requests = @ \cup {<<call, sessionId>>}]

broadcastAutomationEvent(m, runId, event) ==
  [m EXCEPT !.broadcasts[runId] = Append(@, event)]

broadcastAutomationsChanged(m, runId) ==
  [m EXCEPT !.broadcasts[runId] = Append(@, AutomationsChanged)]

clearTimeout(m, runId) ==
  [m EXCEPT !.timers[runId] = IF @ = "armed" THEN "cleared" ELSE @]

\* -------------------------------------------------------- TriggerRegistry
TriggerTypes ==
  {"schedule", "hotkey", "file-change", "power-event", "app-event",
   "clipboard", "manual", "webhook"}

Config(type, cron, accelerator, events) ==
  [type |-> type, cron |-> cron, accelerator |-> accelerator,
   events |-> events]

ManualConfig == Config("manual", "", "", {})

\* the fields of ActionConfig the manager reads: whether sourceSlugs has an
\* entry, and timeoutSeconds (Undefined when left out)
ActionConfig(hasSourceSlugs, timeoutSeconds) ==
  [hasSourceSlugs |-> hasSourceSlugs, timeoutSeconds |-> timeoutSeconds]

\* cron expressions: none, one croner rejects, one it accepts
CronInputs == {"", "bad", "0 9 * * *"}
ValidCrons == {"0 9 * * *"}
\* accelerators: none, one another application holds, one that is free
AcceleratorInputs == {"", "Cmd+Q", "Cmd+Shift+A"}
TakenAccelerators == {"Cmd+Q"}
PowerEvents ==
  {"on-ac", "on-battery", "suspend", "resume", "lock-screen", "unlock-screen"}
\* the event lists the settings page builds have no repeated entry
PowerEventInputs == {{}, {"bogus"}, {"suspend"}, {"suspend", "resume"}}
AppEventInputs ==
  {{}, {"app-ready"}, {"window-focus"}, {"app-ready", "window-focus"}}

TriggerConfigs ==
  {Config("schedule", c, "", {}) : c \in CronInputs}
    \cup {Config("hotkey", "", k, {}) : k \in AcceleratorInputs}
    \cup {Config("power-event", "", "", e) : e \in PowerEventInputs}
    \cup {Config("app-event", "", "", e) : e \in AppEventInputs}
    \cup {ManualConfig, Config("webhook", "", "", {})}

\* ---- strings the code takes apart are sequences of characters
startsWith(s, prefix) ==
  Len(prefix) <= Len(s) /\ SubSeq(s, 1, Len(prefix)) = prefix

endsWith(s, suffix) ==
  Len(suffix) <= Len(s)
    /\ SubSeq(s, Len(s) - Len(suffix) + 1, Len(s)) = suffix

includes(s, sub) ==
  \E i \in 0..(Len(s) - Len(sub)) : SubSeq(s, i + 1, i + Len(sub)) = sub

\* String.prototype.slice for 0 <= start
slice(s, start, end) ==
  SubSeq(s, start + 1, IF end < Len(s) THEN end ELSE Len(s))

\* fs.watch hands the callback a null filename on some platforms
NullFilename == <<>>

\* `${filename}` in a template literal
template(filename) ==
  IF filename = NullFilename THEN <<"n", "u", "l", "l">> ELSE filename

DefaultDebounceMs == 5000
ContentLimit == 500
\* an optional number that is left out
Undefined == -1
DefaultTimeoutSeconds == 300

FileChangeConfig(paths, patterns, events, debounceMs) ==
  [type |-> "file-change", cron |-> "", accelerator |-> "",
   events |-> events, paths |-> paths, patterns |-> patterns,
   debounceMs |-> debounceMs]

ClipboardConfig(pattern, pollInterval) ==
  [type |-> "clipboard", cron |-> "", accelerator |-> "", events |-> {},
   pattern |-> pattern, pollInterval |-> pollInterval]

\* existsSync(watchPath)
ExistingPaths == {<<"/", "w">>, <<"/", "v">>}

\* what fs.watch reports: the watched path, the event type, the filename
FsEvents ==
  {<<(<<"/", "w">>), "rename", (<<"a", ".", "m", "d">>)>>,
   <<(<<"/", "w">>), "change", (<<"b", ".", "t", "x", "t">>)>>,
   <<(<<"/", "v">>), "change", (<<"l", "o", "g", "/", "c">>)>>,
   <<(<<"/", "v">>), "change", NullFilename>>}

\* clipboard patterns: none, one RegExp rejects, one it accepts
RegexInputs == {"", "[", "^h"}
ValidRegexes == {"^h"}
ClipboardContents == {<<>>, <<"h", "i">>, <<"h", "o">>, <<"y", "o">>}

\* RegExp.prototype.test, for the patterns of ValidRegexes
regexTest(regex, content) ==
  regex = "^h" /\ startsWith(content, <<"h">>)

\* what the host can signal: a cron time, a key press, a powerMonitor or
\* app event
Conditions ==
  {<<"cron", "0 9 * * *">>, <<"hotkey", "Cmd+Shift+A">>,
   <<"power", "suspend">>, <<"power", "resume">>,
   <<"app", "browser-window-focus">>}

\* a live job, shortcut or listener and the automation its callback names
Subscription(automationId, triggeredBy, condition) ==
  [automationId |-> automationId, triggeredBy |-> triggeredBy,
   condition |-> condition]

\* a RegisteredTrigger; `listeners` and `accelerator` are what its stop
\* closure captured
RegisteredTrigger(automationId, type, listeners, accelerator) ==
  [automationId |-> automationId, type |-> type, listeners |-> listeners,
   accelerator |-> accelerator]

\* the callback given to the constructor
onTrigger(m, automationId, triggeredBy) ==
  [m EXCEPT !.fired = @ (+) SetToBag({[automationId |-> automationId,
                                       triggeredBy  |-> triggeredBy]})]

\* stop() of a file-change trigger without the clearTimeout
stopKeepsTimer(m, trigger) ==
  IF trigger.type = "hotkey" THEN
    [m EXCEPT !.subscriptions =
       @ (-) [s \in {x \in BagToSet(m.subscriptions) :
                       x.condition = <<"hotkey", trigger.accelerator>>}
                |-> CopiesIn(s, m.subscriptions)]]
  ELSE [m EXCEPT !.subscriptions = @ (-) SetToBag(trigger.listeners)]

\* RegisteredTrigger.stop()
stop(m, trigger) ==
  IF trigger.type = "file-change" THEN
    \* clearTimeout(debounceTimer), then every watcher is closed
    [m EXCEPT !.closures[trigger.automationId].debounceTimer = NoTime,
              !.subscriptions = @ (-) SetToBag(trigger.listeners)]
  ELSE IF trigger.type = "hotkey" THEN
    \* globalShortcut.unregister(accelerator)
    [m EXCEPT !.subscriptions =
       @ (-) [s \in {x \in BagToSet(m.subscriptions) :
                       x.condition = <<"hotkey", trigger.accelerator>>}
                |-> CopiesIn(s, m.subscriptions)]]
  ELSE [m EXCEPT !.subscriptions = @ (-) SetToBag(trigger.listeners)]

\* unregister with the call of existing.stop() left out
unregisterSkipsStop(m, automationId) ==
  IF automationId \notin DOMAIN m.triggers THEN m
  ELSE [m EXCEPT !.triggers = Remove(m.triggers, {automationId})]

\* unregister emptying the table when the id has no entry
unregisterClearsWhenAbsent(m, automationId) ==
  IF automationId \notin DOMAIN m.triggers
  THEN [m EXCEPT !.triggers = <<>>]
  ELSE
    LET m1 == stop(m, m.triggers[automationId]) IN
    [m1 EXCEPT !.triggers = Remove(m1.triggers, {automationId})]

unregister(m, automationId) ==
  IF automationId \notin DOMAIN m.triggers THEN m
  ELSE
    LET existing == m.triggers[automationId]
        m1 == stop(m, existing) IN
    [m1 EXCEPT !.triggers = Remove(m1.triggers, {automationId})]

RECURSIVE stopAll(_, _)
\* the loop of unregisterAll over the table
stopAll(m, todo) ==
  IF todo = {} THEN m
  ELSE LET id == CHOOSE a \in todo : TRUE IN
       stopAll(stop(m, m.triggers[id]), todo \ {id})

unregisterAll(m) ==
  [stopAll(m, DOMAIN m.triggers) EXCEPT !.triggers = <<>>]

registerScheduleTrigger(m, automation, config) ==
  IF config.cron = "" THEN m
  ELSE IF config.cron \notin ValidCrons THEN m   \* new Cron throws, caught
  ELSE
    LET job == Subscription(automation.id, "schedule",
                            <<"cron", config.cron>>) IN
    [m EXCEPT
       !.subscriptions = @ (+) SetToBag({job}),
       !.triggers = Put(m.triggers, automation.id,
                        RegisteredTrigger(automation.id, "schedule",
                                          {job}, ""))]

registerHotkeyTrigger(m, automation, config) ==
  IF config.accelerator = "" THEN m
  ELSE
    LET held == {s \in BagToSet(m.subscriptions) :
                   s.condition = <<"hotkey", config.accelerator>>}
        success == config.accelerator \notin TakenAccelerators /\ held = {}
        shortcut == Subscription(automation.id, "hotkey",
                                 <<"hotkey", config.accelerator>>) IN
    IF ~success THEN m
    ELSE
      [m EXCEPT
         !.subscriptions = @ (+) SetToBag({shortcut}),
         !.triggers = Put(m.triggers, automation.id,
                          RegisteredTrigger(automation.id, "hotkey",
                                            {shortcut},
                                            config.accelerator))]

registerPowerEventTrigger(m, automation, config) ==
  IF config.events = {} THEN m
  ELSE
    LET listeners ==
          {Subscription(automation.id, "power-event", <<"power", e>>) :
             e \in config.events \cap PowerEvents} IN
    IF listeners = {} THEN m
    ELSE
      [m EXCEPT
         !.subscriptions = @ (+) SetToBag(listeners),
         !.triggers = Put(m.triggers, automation.id,
                          RegisteredTrigger(automation.id, "power-event",
                                            listeners, ""))]

electronEvent(eventName) ==
  IF eventName = "window-focus" THEN "browser-window-focus"
  ELSE "browser-window-blur"

\* registerAppEventTrigger that leaves app-ready to a later host signal
registerAppEventTriggerWaits(m, automation, config) ==
  IF config.events = {} THEN m
  ELSE
    LET listeners ==
          {Subscription(automation.id, "app-event",
                        <<"app", electronEvent(e)>>) :
             e \in config.events \cap {"window-focus", "window-blur"}} IN
    IF listeners = {} /\ "app-ready" \notin config.events THEN m
    ELSE
      [m EXCEPT
         !.subscriptions = @ (+) SetToBag(listeners),
         !.triggers = Put(m.triggers, automation.id,
                          RegisteredTrigger(automation.id, "app-event",
                                            listeners, ""))]

registerAppEventTrigger(m, automation, config) ==
  IF config.events = {} THEN m
  ELSE
    LET m1 == IF "app-ready" \in config.events
              THEN onTrigger(m, automation.id, "app-event")
              ELSE m
        listeners ==
          {Subscription(automation.id, "app-event",
                        <<"app", electronEvent(e)>>) :
             e \in config.events \cap {"window-focus", "window-blur"}} IN
    IF listeners = {} /\ "app-ready" \notin config.events THEN m1
    ELSE
      [m1 EXCEPT
         !.subscriptions = @ (+) SetToBag(listeners),
         !.triggers = Put(m1.triggers, automation.id,
                          RegisteredTrigger(automation.id, "app-event",
                                            listeners, ""))]

\* onTrigger with the triggerContext the callback is given
onTriggerWith(m, automationId, triggeredBy, context) ==
  LET m1 == onTrigger(m, automationId, triggeredBy) IN
  [m1 EXCEPT !.contexts =
     Append(@, [automationId |-> automationId,
                triggeredBy  |-> triggeredBy,
                context      |-> context])]

\* the glob test of the watcher callback
matchesPattern(pattern, filename) ==
  IF startsWith(pattern, <<"*", ".">>) THEN
    endsWith(filename, slice(pattern, 1, Len(pattern)))
  ELSE IF startsWith(pattern, <<"*", "*", "/">>) THEN
    includes(filename, slice(pattern, 3, Len(pattern)))
  ELSE filename = pattern

\* flushChanges of the closure registerFileChangeTrigger made for
\* automationId; firedAt is the clock reading the ISO string is made from
flushChanges(m, automationId) ==
  LET closure == m.closures[automationId] IN
  IF closure.pendingChanges = <<>> THEN m
  ELSE
    LET changes == closure.pendingChanges
        m1 == [m EXCEPT !.closures[automationId].pendingChanges = <<>>] IN
    onTriggerWith(m1, automationId, "file-change",
                  [changes |-> changes, firedAt |-> m.now])

\* the watcher callback without its two filters
watcherCallbackUnfiltered(m, automationId, watchPath, eventType, filename) ==
  LET closure == m.closures[automationId] IN
  [m EXCEPT
     !.closures[automationId].pendingChanges =
        Append(@, [path  |-> watchPath \o <<"/">> \o template(filename),
                   event |-> eventType]),
     !.closures[automationId].debounceTimer = m.now + closure.debounceMs]

\* the watcher callback without the restart of an armed debounce timer
watcherCallbackKeepsTimer(m, automationId, watchPath, eventType, filename) ==
  LET closure == m.closures[automationId]
      matches == \E pattern \in closure.patterns :
                   matchesPattern(pattern, filename)
      mappedEvent == IF eventType = "rename" THEN "add" ELSE "change" IN
  IF closure.patterns # {} /\ filename # NullFilename /\ ~matches THEN m
  ELSE IF closure.events # {} /\ mappedEvent \notin closure.events THEN m
  ELSE
  [m EXCEPT
     !.closures[automationId].pendingChanges =
        Append(@, [path  |-> watchPath \o <<"/">> \o template(filename),
                   event |-> eventType]),
     !.closures[automationId].debounceTimer =
        IF @ = NoTime THEN m.now + closure.debounceMs ELSE @]

\* the callback of the watcher on watchPath, in the closure of automationId
watcherCallback(m, automationId, watchPath, eventType, filename) ==
  LET closure == m.closures[automationId]
      matches == \E pattern \in closure.patterns :
                   matchesPattern(pattern, filename)
      mappedEvent == IF eventType = "rename" THEN "add" ELSE "change" IN
  IF closure.patterns # {} /\ filename # NullFilename /\ ~matches THEN m
  ELSE IF closure.events # {} /\ mappedEvent \notin closure.events THEN m
  ELSE
    [m EXCEPT
       !.closures[automationId].pendingChanges =
          Append(@, [path  |-> watchPath \o <<"/">> \o template(filename),
                     event |-> eventType]),
       \* clearTimeout of the armed timer, then setTimeout
       !.closures[automationId].debounceTimer = m.now + closure.debounceMs]

\* the debounce timer of automationId runs out
debounceTimeout(m, automationId) ==
  flushChanges([m EXCEPT !.closures[automationId].debounceTimer = NoTime],
               automationId)

RECURSIVE notifyWatchers(_, _, _, _, _)
\* the host runs the callback of every open watcher on watchPath
notifyWatchers(m, todo, watchPath, eventType, filename) ==
  IF todo = {} THEN m
  ELSE
    LET w == CHOOSE x \in todo : TRUE IN
    notifyWatchers(
      watcherCallback(m, w.automationId, watchPath, eventType, filename),
      todo \ {w}, watchPath, eventType, filename)

\* a file under watchPath changes
fsEvent(m, watchPath, eventType, filename) ==
  LET open == {s \in BagToSet(m.subscriptions) :
                 s.condition = <<"fs", watchPath>>}
      m1 == [m EXCEPT !.emitted =
               Append(@, [watchPath |-> watchPath, eventType |-> eventType,
                          filename |-> filename, at |-> m.now])] IN
  notifyWatchers(m1, open, watchPath, eventType, filename)

registerFileChangeTrigger(m, automation, config) ==
  IF config.paths = {} THEN m
  ELSE
    LET debounceMs == IF config.debounceMs = Undefined
                      THEN DefaultDebounceMs ELSE config.debounceMs
        closure == [patterns       |-> config.patterns,
                    events         |-> config.events,
                    debounceMs     |-> debounceMs,
                    pendingChanges |-> <<>>,
                    debounceTimer  |-> NoTime]
        watchers ==
          {Subscription(automation.id, "file-change", <<"fs", p>>) :
             p \in config.paths \cap ExistingPaths}
        m1 == [m EXCEPT !.closures = Put(m.closures, automation.id, closure),
                        !.subscriptions = @ (+) SetToBag(watchers)] IN
    IF watchers = {} THEN m1
    ELSE
      [m1 EXCEPT
         !.triggers = Put(m1.triggers, automation.id,
                          RegisteredTrigger(automation.id, "file-change",
                                            watchers, ""))]

\* the interval callback remembering only the content it fired for
pollClipboardRemembersFired(m, automationId) ==
  LET poller == m.pollers[automationId]
      currentContent == m.clipboard IN
  IF currentContent = poller.lastContent THEN m
  ELSE IF poller.regex # NULL /\ ~regexTest(poller.regex, currentContent)
  THEN m
  ELSE
    onTriggerWith([m EXCEPT !.pollers[automationId].lastContent =
                              currentContent],
                  automationId, "clipboard",
                  [content |-> slice(currentContent, 0, ContentLimit),
                   firedAt |-> m.now])

\* the setInterval callback of the closure registerClipboardTrigger made
pollClipboard(m, automationId) ==
  LET poller == m.pollers[automationId]
      currentContent == m.clipboard IN
  IF currentContent = poller.lastContent THEN m
  ELSE
    LET m1 == [m EXCEPT !.pollers[automationId].lastContent =
                          currentContent] IN
    IF poller.regex # NULL /\ ~regexTest(poller.regex, currentContent) THEN m1
    ELSE
      onTriggerWith(m1, automationId, "clipboard",
                    [content |-> slice(currentContent, 0, ContentLimit),
                     firedAt |-> m.now])

registerClipboardTrigger(m, automation, config) ==
  LET regex == IF config.pattern # "" /\ config.pattern \in ValidRegexes
               THEN config.pattern ELSE NULL
      poller == [lastContent |-> m.clipboard, regex |-> regex,
                 pattern |-> config.pattern]
      interval == Subscription(automation.id, "clipboard",
                               <<"interval", automation.id>>) IN
  [m EXCEPT
     !.pollers = Put(m.pollers, automation.id, poller),
     !.subscriptions = @ (+) SetToBag({interval}),
     !.triggers = Put(m.triggers, automation.id,
                      RegisteredTrigger(automation.id, "clipboard",
                                        {interval}, ""))]

\* register without the unregister it starts with
registerKeepsExisting(m, automation) ==
  LET config == automation.triggerConfig IN
  CASE config.type = "schedule" ->
         registerScheduleTrigger(m, automation, config)
    [] config.type = "hotkey" ->
         registerHotkeyTrigger(m, automation, config)
    [] config.type = "file-change" ->
         registerFileChangeTrigger(m, automation, config)
    [] config.type = "power-event" ->
         registerPowerEventTrigger(m, automation, config)
    [] config.type = "app-event" ->
         registerAppEventTrigger(m, automation, config)
    [] config.type = "clipboard" ->
         registerClipboardTrigger(m, automation, config)
    [] OTHER -> m

register(m, automation) ==
  LET m1 == unregister(m, automation.id)
      config == automation.triggerConfig IN
  CASE config.type = "schedule" ->
         registerScheduleTrigger(m1, automation, config)
    [] config.type = "hotkey" ->
         registerHotkeyTrigger(m1, automation, config)
    [] config.type = "file-change" ->
         registerFileChangeTrigger(m1, automation, config)
    [] config.type = "power-event" ->
         registerPowerEventTrigger(m1, automation, config)
    [] config.type = "app-event" ->
         registerAppEventTrigger(m1, automation, config)
    [] config.type = "clipboard" ->
         registerClipboardTrigger(m1, automation, config)
    [] OTHER -> m1

\* the host signals `condition`: every live subscription on it runs its
\* callback, which calls onTrigger
occurrence(m, condition) ==
  LET live == {s \in BagToSet(m.subscriptions) : s.condition = condition}
      callbacks == {[automationId |-> s.automationId,
                     triggeredBy  |-> s.triggeredBy] : s \in live} IN
  [m EXCEPT !.fired =
     @ (+) [c \in callbacks |->
              CopiesIn(Subscription(c.automationId, c.triggeredBy, condition),
                       m.subscriptions)]]

RECURSIVE registerEnabledUntilFailure(_, _)
\* the loop of loadAllTriggers given up at the first automation that gets
\* no table entry
registerEnabledUntilFailure(m, todo) ==
  IF todo = {} THEN m
  ELSE
    LET id == CHOOSE a \in todo : TRUE
        automation == [id |-> id,
                       triggerConfig |-> m.automations[id].triggerConfig]
        m1 == IF m.automations[id].enabled THEN register(m, automation)
              ELSE m IN
    IF m.automations[id].enabled /\ id \notin DOMAIN m1.triggers THEN m1
    ELSE registerEnabledUntilFailure(m1, todo \ {id})

RECURSIVE registerEnabled(_, _)
\* the loop of loadAllTriggers over the stored automations
registerEnabled(m, todo) ==
  IF todo = {} THEN m
  ELSE
    LET id == CHOOSE a \in todo : TRUE
        automation == [id |-> id,
                       triggerConfig |-> m.automations[id].triggerConfig] IN
    registerEnabled(
      IF m.automations[id].enabled THEN register(m, automation) ELSE m,
      todo \ {id})

loadAllTriggers(m) == registerEnabled(m, DOMAIN m.automations)

\* ---------------------------------------------------------------- Init
Init ==
  /\ lifecycle = "constructed"
  /\ now = 0
  /\ automations =
       [a \in {"a1"} |->
          [ enabled        |-> TRUE,
            triggerConfig  |-> ManualConfig,
            actionConfig   |-> ActionConfig(TRUE, 0),
            lastRunAt      |-> NoTime,
            lastStatus     |-> NULL,
            runCount       |-> 0,
            updatedAt      |-> 0 ]]
  /\ runs = <<>>
  /\ nextRunId = 1
  /\ calls = [r \in RunIds |-> [pc |-> "none", automationId |-> NULL,
                                actionConfig |-> ActionConfig(FALSE, 0)]]
  /\ cancels = [r \in RunIds |-> "none"]
  /\ activeRuns = <<>>
  /\ sessionToRun = <<>>
  /\ timers = [r \in RunIds |-> "none"]
  /\ broadcasts = [r \in RunIds |-> <<>>]
  /\ shutdownRuns = {}
  /\ triggers = <<>>
  /\ subscriptions = EmptyBag
  /\ fired = EmptyBag
  /\ contexts = <<>>
  /\ closures = <<>>
  /\ pollers = <<>>
  /\ clipboard = <<>>
  /\ emitted = <<>>

\* ------------------------------------------------------- AutomationManager
initialize(m) == [loadAllTriggers(m) EXCEPT !.lifecycle = "initialized"]

AdmissionFull(m) == Cardinality(DOMAIN m.activeRuns) >= maxConcurrentRuns

\* executeAutomation with the run record created before the look-ups
executeAutomationRecordsBeforeLookup(m, workspaceId, automationId, triggeredBy) ==
  LET runId == m.nextRunId
      run == createRun(automationId, triggeredBy, m.now)
      m1 == [m EXCEPT !.runs = Put(m.runs, runId, run),
                      !.nextRunId = runId + 1] IN
  IF workspaceId \notin Workspaces THEN Returns(m1, "Workspace not found")
  ELSE IF ~getAutomation(m.automations, automationId) THEN
    Returns(m1, "Automation not found")
  ELSE IF AdmissionFull(m) THEN Returns(m, "Concurrency limit reached")
  ELSE
    Requests([broadcastAutomationEvent(m1, runId, Ev("run_started", run))
                EXCEPT !.calls[runId] =
                  [ pc             |-> "createSession",
                    automationId   |-> automationId,
                    actionConfig   |->
                      m.automations[automationId].actionConfig ]],
             "createSession", NoSession)

\* executeAutomation with the run record created before the admission check
executeAutomationRecordsFirst(m, workspaceId, automationId, triggeredBy) ==
  IF workspaceId \notin Workspaces THEN Returns(m, "Workspace not found")
  ELSE IF ~getAutomation(m.automations, automationId) THEN
    Returns(m, "Automation not found")
  ELSE
    LET runId == m.nextRunId
        run == createRun(automationId, triggeredBy, m.now)
        m1 == [m EXCEPT !.runs = Put(m.runs, runId, run),
                        !.nextRunId = runId + 1]
        m2 == broadcastAutomationEvent(m1, runId, Ev("run_started", run)) IN
    IF AdmissionFull(m) THEN Returns(m2, "Concurrency limit reached")
    ELSE
      Requests([m2 EXCEPT !.calls[runId] =
                  [ pc             |-> "createSession",
                    automationId   |-> automationId,
                    actionConfig   |->
                      m.automations[automationId].actionConfig ]],
               "createSession", NoSession)

\* executeAutomation up to its first await (createSession)
executeAutomation(m, workspaceId, automationId, triggeredBy) ==
  IF workspaceId \notin Workspaces THEN Returns(m, "Workspace not found")
  ELSE IF ~getAutomation(m.automations, automationId) THEN
    Returns(m, "Automation not found")
  ELSE IF AdmissionFull(m) THEN Returns(m, "Concurrency limit reached")
  ELSE
    LET runId == m.nextRunId
        run == createRun(automationId, triggeredBy, m.now)
        m1 == [m EXCEPT !.runs = Put(m.runs, runId, run),
                        !.nextRunId = runId + 1]
        m2 == broadcastAutomationEvent(m1, runId, Ev("run_started", run)) IN
    Requests([m2 EXCEPT !.calls[runId] =
                [ pc             |-> "createSession",
                  automationId   |-> automationId,
                  actionConfig   |->
                    m.automations[automationId].actionConfig ]],
             "createSession", NoSession)

\* the callback the constructor gives the registry, without its .catch
triggerCallbackRethrows(m, workspaceId, automationId, triggeredBy) ==
  executeAutomation(m, workspaceId, automationId, triggeredBy)

\* the .catch of that callback: the rejection is logged and goes no further
catchHandler(m) == [m EXCEPT !.result = NULL]

\* the callback the constructor gives the registry
triggerCallback(m, workspaceId, automationId, triggeredBy) ==
  catchHandler(executeAutomation(m, workspaceId, automationId, triggeredBy))

\* the catch block without its run_failed broadcast
setupFailedSkipsBroadcast(m, runId, errorMessage) ==
  LET m1 ==
        IF updateRunFound(m.runs, runId) THEN
          LET failedRun == updateRun(m.runs, runId,
                             [ status      |-> "failure",
                               completedAt |-> m.now,
                               error       |-> errorMessage ]) IN
          broadcastAutomationsChanged(
            [m EXCEPT
               !.runs = Put(m.runs, runId, failedRun),
               !.automations =
                 updateAutomationAfterRun(m.automations,
                   m.calls[runId].automationId, failedRun, m.now)],
            runId)
        ELSE m IN
  Returns([m1 EXCEPT !.calls[runId].pc = "threw"], errorMessage)

\* the catch block with only its rethrow
setupFailedOnlyRethrows(m, runId, errorMessage) ==
  Returns([m EXCEPT !.calls[runId].pc = "threw"], errorMessage)

\* the catch block of executeAutomation
setupFailed(m, runId, errorMessage) ==
  LET m1 ==
        IF updateRunFound(m.runs, runId) THEN
          LET failedRun == updateRun(m.runs, runId,
                             [ status      |-> "failure",
                               completedAt |-> m.now,
                               error       |-> errorMessage ])
              m2 == [m EXCEPT
                       !.runs = Put(m.runs, runId, failedRun),
                       !.automations =
                         updateAutomationAfterRun(m.automations,
                           m.calls[runId].automationId, failedRun, m.now)] IN
          broadcastAutomationsChanged(
            broadcastAutomationEvent(m2, runId, Ev("run_failed", failedRun)),
            runId)
        ELSE m IN
  Returns([m1 EXCEPT !.calls[runId].pc = "threw"], errorMessage)

\* the delay of the timeout timer, for a delay of zero seconds
timeoutMsImmediate(actionConfig) ==
  (IF actionConfig.timeoutSeconds = Undefined THEN DefaultTimeoutSeconds
   ELSE actionConfig.timeoutSeconds) * 1000

\* (automation.actionConfig.timeoutSeconds || 300) * 1000: undefined and 0
\* are falsy
timeoutMs(actionConfig) ==
  (IF actionConfig.timeoutSeconds \in {Undefined, 0}
   THEN DefaultTimeoutSeconds
   ELSE actionConfig.timeoutSeconds) * 1000

\* executeAutomation resumed when createSession settles
createSessionSettled(m, runId, ok) ==
  IF ~ok THEN setupFailed(m, runId, CreateSessionErr)
  ELSE IF ~updateRunFound(m.runs, runId) THEN
    setupFailed(m, runId, UpdateFailedMsg)
  ELSE
    LET sessionId == SessionOf(runId)
        updatedRun == updateRun(m.runs, runId,
                        [status |-> "running", sessionId |-> sessionId])
        m1 == [m EXCEPT
                 !.runs = Put(m.runs, runId, updatedRun),
                 !.timers[runId] = "armed",
                 !.activeRuns = Put(m.activeRuns, runId,
                                  [ automationId |-> m.calls[runId].automationId,
                                    sessionId    |-> sessionId,
                                    timeoutMs    |->
                                      timeoutMs(m.calls[runId].actionConfig) ]),
                 !.sessionToRun = Put(m.sessionToRun, sessionId, runId)] IN
    IF m.calls[runId].actionConfig.hasSourceSlugs
    THEN Requests([m1 EXCEPT !.calls[runId].pc = "setSessionSources"],
                  "setSessionSources", sessionId)
    ELSE Requests([m1 EXCEPT !.calls[runId].pc = "sendMessage"],
                  "sendMessage", sessionId)

\* executeAutomation resumed when setSessionSources settles
setSessionSourcesSettled(m, runId, ok) ==
  IF ~ok THEN setupFailed(m, runId, SetSourcesErr)
  ELSE Requests([m EXCEPT !.calls[runId].pc = "sendMessage"],
                "sendMessage", SessionOf(runId))

\* executeAutomation resumed when sendMessage settles
sendMessageSettled(m, runId, ok) ==
  IF ~ok THEN setupFailed(m, runId, SendMessageErr)
  ELSE Returns([m EXCEPT !.calls[runId].pc = "returned"], "run")

\* completeRun accounting the record as it was before the update
completeRunAccountsOldRecord(m, runId, status, error) ==
  IF runId \notin DOMAIN m.activeRuns THEN m
  ELSE
    LET active == m.activeRuns[runId]
        m1 == IF updateRunFound(m.runs, runId) THEN
                LET updatedRun == updateRun(m.runs, runId,
                                    [ status      |-> status,
                                      completedAt |-> m.now,
                                      error       |-> error ])
                    eventType ==
                      IF status = "success" THEN "run_completed"
                      ELSE IF status = "cancelled" THEN "run_cancelled"
                      ELSE "run_failed" IN
                broadcastAutomationsChanged(
                  broadcastAutomationEvent(
                    [m EXCEPT
                       !.runs = Put(m.runs, runId, updatedRun),
                       !.automations =
                         updateAutomationAfterRun(m.automations,
                           active.automationId, m.runs[runId], m.now)],
                    runId, Ev(eventType, updatedRun)),
                  runId)
              ELSE m
        m2 == clearTimeout(m1, runId) IN
    [m2 EXCEPT !.sessionToRun = Remove(m2.sessionToRun, {active.sessionId}),
               !.activeRuns = Remove(m2.activeRuns, {runId})]

\* completeRun without the look-up in activeRuns
completeRunUnguarded(m, runId, status, error) ==
  LET m1 == IF updateRunFound(m.runs, runId) THEN
              LET updatedRun == updateRun(m.runs, runId,
                                  [ status      |-> status,
                                    completedAt |-> m.now,
                                    error       |-> error ])
                  eventType ==
                    IF status = "success" THEN "run_completed"
                    ELSE IF status = "cancelled" THEN "run_cancelled"
                    ELSE "run_failed" IN
              broadcastAutomationsChanged(
                broadcastAutomationEvent(
                  [m EXCEPT
                     !.runs = Put(m.runs, runId, updatedRun),
                     !.automations =
                       updateAutomationAfterRun(m.automations,
                         updatedRun.automationId, updatedRun, m.now)],
                  runId, Ev(eventType, updatedRun)),
                runId)
            ELSE m
      m2 == clearTimeout(m1, runId) IN
  [m2 EXCEPT !.sessionToRun = Remove(m2.sessionToRun, {SessionOf(runId)}),
             !.activeRuns = Remove(m2.activeRuns, {runId})]

completeRun(m, runId, status, error) ==
  IF runId \notin DOMAIN m.activeRuns THEN m
  ELSE
    LET active == m.activeRuns[runId]
        m1 == IF updateRunFound(m.runs, runId) THEN
                LET updatedRun == updateRun(m.runs, runId,
                                    [ status      |-> status,
                                      completedAt |-> m.now,
                                      error       |-> error ])
                    eventType ==
                      IF status = "success" THEN "run_completed"
                      ELSE IF status = "cancelled" THEN "run_cancelled"
                      ELSE "run_failed" IN
                broadcastAutomationsChanged(
                  broadcastAutomationEvent(
                    [m EXCEPT
                       !.runs = Put(m.runs, runId, updatedRun),
                       !.automations =
                         updateAutomationAfterRun(m.automations,
                           active.automationId, updatedRun, m.now)],
                    runId, Ev(eventType, updatedRun)),
                  runId)
              ELSE m
        m2 == clearTimeout(m1, runId) IN
    [m2 EXCEPT !.sessionToRun = Remove(m2.sessionToRun, {active.sessionId}),
               !.activeRuns = Remove(m2.activeRuns, {runId})]

\* cancelRun with the cancel request sent before the look-up
cancelRunRequestsFirst(m, runId) ==
  IF runId \notin DOMAIN m.activeRuns
  THEN Returns(Requests(m, "cancelProcessing", NoSession), "false")
  ELSE Requests([m EXCEPT !.cancels[runId] = "cancelProcessing"],
                "cancelProcessing", m.activeRuns[runId].sessionId)

\* cancelRun up to its await (cancelProcessing)
cancelRun(m, runId) ==
  IF runId \notin DOMAIN m.activeRuns THEN Returns(m, "false")
  ELSE Requests([m EXCEPT !.cancels[runId] = "cancelProcessing"],
                "cancelProcessing", m.activeRuns[runId].sessionId)

\* cancelRun resumed when cancelProcessing settles
cancelProcessingSettled(m, runId, ok) ==
  LET m1 == [m EXCEPT !.cancels[runId] = "none"] IN
  IF ~ok THEN Returns(m1, "cancelProcessing rejected")
  ELSE Returns(completeRun(m1, runId, "cancelled", NULL), "true")

\* handleSessionEvent finalizing every notification as success
handleSessionEventAlwaysSuccess(m, type, sessionId) ==
  IF type \notin {"complete", "error"} THEN m
  ELSE IF sessionId = NoSession THEN m
  ELSE IF sessionId \notin DOMAIN m.sessionToRun THEN m
  ELSE completeRun(m, m.sessionToRun[sessionId], "success", NULL)

handleSessionEvent(m, type, sessionId) ==
  IF type \notin {"complete", "error"} THEN m
  ELSE IF sessionId = NoSession THEN m
  ELSE IF sessionId \notin DOMAIN m.sessionToRun THEN m
  ELSE
    LET runId == m.sessionToRun[sessionId] IN
    IF runId \notin DOMAIN m.activeRuns THEN m
    ELSE IF type = "complete" THEN completeRun(m, runId, "success", NULL)
    ELSE completeRun(m, runId, "failure", SessionErr)

\* handleTimeout with the call of completeRun left out
handleTimeoutOnlyCancels(m, runId) ==
  IF runId \notin DOMAIN m.activeRuns THEN m
  ELSE Requests(m, "cancelProcessing", m.activeRuns[runId].sessionId)

handleTimeout(m, runId) ==
  IF runId \notin DOMAIN m.activeRuns THEN m
  ELSE completeRun(
         Requests(m, "cancelProcessing", m.activeRuns[runId].sessionId),
         runId, "failure", TimedOutMsg)

RECURSIVE cleanupRuns(_, _)
\* the loop of cleanup over activeRuns
cleanupRuns(m, todo) ==
  IF todo = {} THEN m
  ELSE
    LET runId == CHOOSE r \in todo : TRUE
        active == m.activeRuns[runId]
        m1 == clearTimeout(m, runId)
        m2 == IF updateRunFound(m1.runs, runId) THEN
                LET updatedRun == updateRun(m1.runs, runId,
                                    [ status      |-> "cancelled",
                                      completedAt |-> m.now,
                                      error       |-> ShutdownMsg ]) IN
                [m1 EXCEPT
                   !.runs = Put(m1.runs, runId, updatedRun),
                   !.automations =
                     updateAutomationAfterRun(m1.automations,
                       active.automationId, updatedRun, m.now)]
              ELSE m1 IN
    cleanupRuns(m2, todo \ {runId})

\* cleanup without the clearing of sessionToRun
cleanupKeepsSessions(m) ==
  [cleanupRuns(unregisterAll(m), DOMAIN m.activeRuns) EXCEPT
     !.activeRuns = <<>>,
     !.shutdownRuns = DOMAIN m.activeRuns,
     !.lifecycle = "cleaned"]

cleanup(m) ==
  [cleanupRuns(unregisterAll(m), DOMAIN m.activeRuns) EXCEPT
     !.activeRuns = <<>>,
     !.sessionToRun = <<>>,
     !.shutdownRuns = DOMAIN m.activeRuns,
     !.lifecycle = "cleaned"]

\* ------------------------------------------------------ storage, via IPC
\* deleteAutomation without the removal of the run history
deleteAutomationKeepsRuns(m, automationId) ==
  IF automationId \notin DOMAIN m.automations THEN Returns(m, "false")
  ELSE Returns([m EXCEPT
                  !.automations = Remove(m.automations, {automationId})],
               "true")

deleteAutomation(m, automationId) ==
  IF automationId \notin DOMAIN m.automations THEN Returns(m, "false")
  ELSE Returns([m EXCEPT
                  !.automations = Remove(m.automations, {automationId}),
                  !.runs = Remove(m.runs, loadRuns(m.runs, automationId))],
               "true")

\* the fields of CreateAutomationInput that are modelled; enabled may be
\* left out
CreateInputs(configs) ==
  {[triggerConfig |-> c] : c \in configs}
    \cup {[triggerConfig |-> c, enabled |-> TRUE] : c \in configs}

\* id is what generateId() returned
createAutomation(m, id, input) ==
  LET automation ==
        [ enabled        |-> IF "enabled" \in DOMAIN input
                             THEN input.enabled ELSE FALSE,
          triggerConfig  |-> input.triggerConfig,
          actionConfig   |-> IF "actionConfig" \in DOMAIN input
                             THEN input.actionConfig
                             ELSE ActionConfig(FALSE, Undefined),
          lastRunAt      |-> NoTime,
          lastStatus     |-> NULL,
          runCount       |-> 0,
          updatedAt      |-> m.now ] IN
  Returns([m EXCEPT !.automations = Put(m.automations, id, automation)], id)

\* duplicateAutomation handing on the enabled flag of the original
duplicateAutomationKeepsEnabled(m, id, automationId) ==
  IF ~getAutomation(m.automations, automationId) THEN Returns(m, NULL)
  ELSE
    LET original == m.automations[automationId] IN
    createAutomation(m, id,
      [ triggerConfig |-> original.triggerConfig,
        actionConfig  |-> original.actionConfig,
        enabled       |-> original.enabled ])

\* id is what generateId() returned
duplicateAutomation(m, id, automationId) ==
  IF ~getAutomation(m.automations, automationId) THEN Returns(m, NULL)
  ELSE
    LET original == m.automations[automationId] IN
    createAutomation(m, id,
      [ triggerConfig |-> original.triggerConfig,
        actionConfig  |-> original.actionConfig,
        enabled       |-> FALSE ])

\* the fields of UpdateAutomationInput that are modelled; a field left out
\* is undefined
UpdateInputs ==
  {[enabled |-> b] : b \in BOOLEAN}
    \cup {[triggerConfig |-> c] : c \in TriggerConfigs}

\* updateAutomation merging a new triggerConfig into the stored one
updateAutomationMergesConfig(m, automationId, input) ==
  IF automationId \notin DOMAIN m.automations THEN Returns(m, NULL)
  ELSE
    LET existing == m.automations[automationId]
        named == [f \in DOMAIN input \cap {"actionConfig", "enabled"}
                    |-> input[f]]
        config == IF "triggerConfig" \in DOMAIN input
                  THEN Merge(existing.triggerConfig, input.triggerConfig)
                  ELSE existing.triggerConfig
        updated == Merge(Merge(existing, named),
                         [triggerConfig |-> config, updatedAt |-> m.now]) IN
    Returns([m EXCEPT !.automations = Put(m.automations, automationId, updated)],
            "updated")

\* of the input only the fields the spread names are copied
updateAutomation(m, automationId, input) ==
  IF automationId \notin DOMAIN m.automations THEN Returns(m, NULL)
  ELSE
    LET existing == m.automations[automationId]
        named == [f \in DOMAIN input
                         \cap {"triggerConfig", "actionConfig", "enabled"}
                    |-> input[f]]
        updated == Merge(Merge(existing, named), [updatedAt |-> m.now]) IN
    Returns([m EXCEPT !.automations = Put(m.automations, automationId, updated)],
            "updated")

\* refreshTrigger without the test of the enabled flag
refreshTriggerIgnoresEnabled(m, workspaceId, automationId) ==
  IF workspaceId \notin Workspaces THEN m
  ELSE IF ~getAutomation(m.automations, automationId) THEN
    unregister(m, automationId)
  ELSE register(m, [id |-> automationId,
                    triggerConfig |->
                      m.automations[automationId].triggerConfig])

refreshTrigger(m, workspaceId, automationId) ==
  IF workspaceId \notin Workspaces THEN m
  ELSE IF ~getAutomation(m.automations, automationId) THEN
    unregister(m, automationId)
  ELSE
    LET automation == [id |-> automationId,
                       triggerConfig |->
                         m.automations[automationId].triggerConfig] IN
    IF m.automations[automationId].enabled THEN register(m, automation)
    ELSE unregister(m, automationId)

\* ------------------------------------------------------------- actions
Initialize ==
  /\ lifecycle = "constructed"
  /\ \E this \in {This} :
       Becomes(initialize(this))

\* callers reach the manager between initialize() and cleanup()
Execute(workspaceId, automationId, triggeredBy) ==
  /\ lifecycle = "initialized"
  /\ \E this \in {This} :
       Becomes(executeAutomation(this, workspaceId, automationId, triggeredBy))

CreateSessionSettles(runId, ok) ==
  /\ calls[runId].pc = "createSession"
  /\ \E this \in {This} :
       Becomes(createSessionSettled(this, runId, ok))

SetSessionSourcesSettles(runId, ok) ==
  /\ calls[runId].pc = "setSessionSources"
  /\ \E this \in {This} :
       Becomes(setSessionSourcesSettled(this, runId, ok))

SendMessageSettles(runId, ok) ==
  /\ calls[runId].pc = "sendMessage"
  /\ \E this \in {This} :
       Becomes(sendMessageSettled(this, runId, ok))

Cancel(runId) ==
  /\ lifecycle = "initialized"
  /\ \A r \in RunIds : cancels[r] = "none"
  /\ \E this \in {This} :
       Becomes(cancelRun(this, runId))

CancelProcessingSettles(runId, ok) ==
  /\ cancels[runId] = "cancelProcessing"
  /\ \E this \in {This} :
       Becomes(cancelProcessingSettled(this, runId, ok))

\* the listener is attached between initialize() and cleanup()
SessionEvent(type, sessionId) ==
  /\ lifecycle = "initialized"
  /\ \E this \in {This} :
       Becomes(handleSessionEvent(this, type, sessionId))

TimerFires(runId) ==
  /\ timers[runId] = "armed"
  /\ \E this \in {This} :
       Becomes(handleTimeout([this EXCEPT !.timers[runId] = "fired"], runId))

\* the host signals `condition` and the handler of one live subscription
\* runs: it calls the manager's callback for the workspace it was loaded from
Fire(condition) ==
  \E sub \in BagToSet(subscriptions) :
    /\ sub.condition = condition
    /\ \E this \in {This} :
         Becomes(triggerCallback(this, "ws1", sub.automationId,
                                 sub.triggeredBy))

Cleanup ==
  /\ lifecycle = "initialized"
  /\ \E this \in {This} :
       Becomes(cleanup(this))

Delete(automationId) ==
  /\ lifecycle = "initialized"
  /\ \E this \in {This} :
       Becomes(deleteAutomation(this, automationId))

Register(automationId, config) ==
  \E this \in {This} :
    \E m \in {register(this, [id |-> automationId, triggerConfig |-> config])} :
      BagCardinality(m.fired) <= MaxFired /\ Becomes(m)

Unregister(automationId) ==
  \E this \in {This} :
       Becomes(unregister(this, automationId))

UnregisterAll ==
  \E this \in {This} :
       Becomes(unregisterAll(this))

Occurs(condition) ==
  \E this \in {This} :
    \E m \in {occurrence(this, condition)} :
      BagCardinality(m.fired) <= MaxFired /\ Becomes(m)

FsEvent(watchPath, eventType, filename) ==
  /\ Len(emitted) < MaxChanges
  /\ \E this \in {This} :
       Becomes(fsEvent(this, watchPath, eventType, filename))

DebounceTimerFires(automationId) ==
  /\ automationId \in DOMAIN closures
  /\ closures[automationId].debounceTimer # NoTime
  /\ closures[automationId].debounceTimer <= now
  /\ \E this \in {This} :
       Becomes(debounceTimeout(this, automationId))

\* time passes until t, no later than the next debounce timer is due
Advance(t) ==
  /\ t > now
  /\ \A a \in DOMAIN closures :
       closures[a].debounceTimer # NoTime => t <= closures[a].debounceTimer
  /\ \E this \in {This} :
       Becomes([this EXCEPT !.now = t])

\* the user copies text
Copy(text) ==
  /\ text # clipboard
  /\ \E this \in {This} :
       Becomes([this EXCEPT !.clipboard = text])

ClipboardPoll(automationId) ==
  /\ Subscription(automationId, "clipboard", <<"interval", automationId>>)
       \in BagToSet(subscriptions)
  /\ \E this \in {This} :
       \E m \in {pollClipboard(this, automationId)} :
         BagCardinality(m.fired) <= MaxFired /\ Becomes(m)

CreateAutomation(id, input) ==
  /\ id \notin DOMAIN automations
  /\ \E this \in {This} :
       Becomes(createAutomation(this, id, input))

\* run records as the manager hands them to updateAutomationAfterRun: a
\* terminal status, started in the past and completed since, or with no
\* completion time
FinishedRuns(automationId) ==
  {run \in {Merge(createRun(automationId, "manual", s),
                  [status |-> st, completedAt |-> c]) :
              s \in 0..MaxClock, st \in TerminalStatuses,
              c \in {NoTime} \cup (0..MaxClock)} :
     /\ run.startedAt <= now
     /\ run.completedAt # NoTime =>
          run.startedAt <= run.completedAt /\ run.completedAt <= now}

AfterRun(automationId, run) ==
  /\ automationId \in DOMAIN automations =>
       automations[automationId].runCount < MaxRuns
  /\ \E this \in {This} :
       Becomes([this EXCEPT
                  !.automations =
                    updateAutomationAfterRun(this.automations, automationId,
                                             run, this.now)])

Duplicate(id, automationId) ==
  /\ id \notin DOMAIN automations
  /\ \E this \in {This} :
       Becomes(duplicateAutomation(this, id, automationId))

UpdateAutomation(automationId, input) ==
  \E this \in {This} :
       Becomes(updateAutomation(this, automationId, input))

RefreshTrigger(workspaceId, automationId) ==
  \E this \in {This} :
    \E m \in {refreshTrigger(this, workspaceId, automationId)} :
      BagCardinality(m.fired) <= MaxFired /\ Becomes(m)

\* creating run records is bounded; a call made when the table is full
\* creates none
ExecuteBound == nextRunId <= MaxTracked \/ AdmissionFull(This)

Next ==
  \/ Initialize
  \/ \E w \in WorkspaceInputs, a \in AutomationIds, t \in TriggeredByInputs :
       ExecuteBound /\ Execute(w, a, t)
  \/ \E r \in RunIds, ok \in BOOLEAN : CreateSessionSettles(r, ok)
  \/ \E r \in RunIds, ok \in BOOLEAN : SetSessionSourcesSettles(r, ok)
  \/ \E r \in RunIds, ok \in BOOLEAN : SendMessageSettles(r, ok)
  \/ \E r \in RunIds : Cancel(r)
  \/ \E r \in RunIds, ok \in BOOLEAN : CancelProcessingSettles(r, ok)
  \/ \E t \in EventTypes, s \in {NoSession} \cup SessionIds : SessionEvent(t, s)
  \/ \E r \in RunIds : TimerFires(r)
  \/ Cleanup

\* the manager under every handler, with at most MaxTracked run records
Spec == Init /\ [][Next]_vars

\* admission alone: up to MaxRuns calls, a session manager that never fails
AdmissionNext ==
  \/ Initialize
  \/ \E t \in TriggeredByInputs :
       nextRunId <= MaxRuns /\ Execute("ws1", "a1", t)
  \/ \E r \in RunIds : CreateSessionSettles(r, TRUE)
  \/ \E r \in RunIds : SetSessionSourcesSettles(r, TRUE)
  \/ \E r \in RunIds : SendMessageSettles(r, TRUE)
  \/ \E t \in {"complete", "error"}, s \in SessionIds : SessionEvent(t, s)

AdmissionSpec == Init /\ [][AdmissionNext]_vars

\* the manager together with deletion of automations
StoreNext ==
  \/ Next
  \/ \E a \in AutomationIds : Delete(a)

\* an awaited call of executeAutomation settles, an armed timer that is not
\* cleared fires
RunSettles ==
  \/ \E r \in RunIds, ok \in BOOLEAN : CreateSessionSettles(r, ok)
  \/ \E r \in RunIds, ok \in BOOLEAN : SetSessionSourcesSettles(r, ok)
  \/ \E r \in RunIds, ok \in BOOLEAN : SendMessageSettles(r, ok)
  \/ \E r \in RunIds : TimerFires(r)

\* an awaited cancelProcessing of cancelRun settles
CancelSettles == \E r \in RunIds, ok \in BOOLEAN : CancelProcessingSettles(r, ok)

\* a pending call or armed timer stays so until it settles or fires, and no
\* step adds to them without creating a run record, so fairness of their
\* union gives each of them its turn
Fairness == WF_vars(RunSettles) /\ WF_vars(CancelSettles)

FairSpec == Init /\ [][StoreNext]_vars /\ Fairness

\* the manager and the store without fairness
StoreSpec == Init /\ [][StoreNext]_vars

\* the registry alone, its callback recording the calls it receives
RegistryNext ==
  \/ \E a \in AutomationIds, c \in TriggerConfigs : Register(a, c)
  \/ \E a \in AutomationIds : Unregister(a)
  \/ UnregisterAll
  \/ \E c \in Conditions : Occurs(c)

RegistrySpec == Init /\ [][RegistryNext]_vars

\* the registry as the manager drives it: triggers loaded by initialize and
\* refreshed after the stored automations change
RefreshNext ==
  \/ Initialize
  \/ \E a \in AutomationIds, i \in UpdateInputs : UpdateAutomation(a, i)
  \/ \E a \in AutomationIds : Delete(a)
  \/ \E w \in WorkspaceInputs, a \in AutomationIds : RefreshTrigger(w, a)
  \/ \E c \in Conditions : Occurs(c)

RefreshSpec == Init /\ [][RefreshNext]_vars

FileChangeConfigs ==
  {FileChangeConfig({<<"/", "w">>, <<"/", "v">>}, {}, {}, 2),
   FileChangeConfig({<<"/", "w">>}, {<<"*", ".", "m", "d">>}, {"add"},
                    Undefined),
   FileChangeConfig({<<"/", "w">>, <<"/", "v">>},
                    {<<"*", "*", "/", "l", "o", "g">>,
                     <<"b", ".", "t", "x", "t">>},
                    {"change", "unlink"}, 0),
   FileChangeConfig({<<"/", "x">>}, {}, {}, 2),
   FileChangeConfig({}, {}, {}, 2)}

\* the moments the clock can be read at: the first few milliseconds and
\* the moments a debounce timer is due
Moments ==
  (1..MaxClock)
    \cup ({closures[a].debounceTimer : a \in DOMAIN closures} \ {NoTime})

\* file-change triggers registered before the watched files change
DebounceNext ==
  \/ \E a \in AutomationIds, c \in FileChangeConfigs :
       emitted = <<>> /\ Register(a, c)
  \/ \E e \in FsEvents : FsEvent(e[1], e[2], e[3])
  \/ \E a \in AutomationIds : DebounceTimerFires(a)
  \/ \E t \in Moments : Advance(t)

DebounceSpec == Init /\ [][DebounceNext]_vars

ClipboardConfigs == {ClipboardConfig(p, Undefined) : p \in RegexInputs}

\* clipboard triggers polling while the user copies
ClipboardNext ==
  \/ \E a \in AutomationIds, c \in ClipboardConfigs : Register(a, c)
  \/ \E a \in AutomationIds : Unregister(a)
  \/ \E text \in ClipboardContents : Copy(text)
  \/ \E a \in AutomationIds : ClipboardPoll(a)

ClipboardSpec == Init /\ [][ClipboardNext]_vars

\* one configuration of each kind of trigger that holds a host resource
TeardownConfigs ==
  {Config("schedule", "0 9 * * *", "", {}),
   Config("hotkey", "", "Cmd+Shift+A", {}),
   Config("power-event", "", "", {"suspend", "resume"}),
   Config("app-event", "", "", {"app-ready", "window-focus"})}

\* triggers coming and going while the host keeps signalling
TeardownNext ==
  \/ Initialize
  \/ \E c \in TeardownConfigs : Register("a1", c)
  \/ Register("a2", Config("hotkey", "", "Cmd+Shift+A", {}))
  \/ Register("a1", FileChangeConfig({<<"/", "w">>}, {}, {}, 2))
  \/ Register("a1", ClipboardConfig("", Undefined))
  \/ \E a \in AutomationIds : Unregister(a)
  \/ UnregisterAll
  \/ Cleanup
  \/ \E c \in Conditions : Occurs(c)
  \/ emitted = <<>> /\ FsEvent(<<"/", "w">>, "change", <<"a", ".", "m", "d">>)
  \/ \E a \in AutomationIds : DebounceTimerFires(a)
  \/ \E t \in Moments \ (1..(MaxClock - 1)) : Advance(t)
  \/ \E text \in {<<>>, <<"h", "i">>} : Copy(text)
  \/ \E a \in AutomationIds : ClipboardPoll(a)

TeardownSpec == Init /\ [][TeardownNext]_vars

\* configurations of every kind, some of which cannot be registered
LoadConfigs ==
  {Config("schedule", "bad", "", {}),
   Config("schedule", "0 9 * * *", "", {}),
   Config("hotkey", "", "Cmd+Q", {}),
   Config("hotkey", "", "Cmd+Shift+A", {}),
   Config("power-event", "", "", {"bogus"}),
   Config("power-event", "", "", {"suspend"}),
   Config("app-event", "", "", {}),
   Config("app-event", "", "", {"window-focus"}),
   FileChangeConfig({<<"/", "x">>}, {}, {}, 2),
   FileChangeConfig({<<"/", "w">>}, {}, {}, 2),
   ClipboardConfig("[", Undefined),
   ClipboardConfig("^h", Undefined),
   ManualConfig}

\* automations are stored, then the manager starts and loads the triggers
LoadNext ==
  \/ \E a \in AutomationIds, i \in CreateInputs(LoadConfigs) :
       lifecycle = "constructed" /\ CreateAutomation(a, i)
  \/ \E a \in AutomationIds, i \in CreateInputs(LoadConfigs) \cup UpdateInputs :
       lifecycle = "constructed" /\ UpdateAutomation(a, i)
  \/ Initialize
  \/ \E c \in Conditions : Occurs(c)

LoadSpec == Init /\ [][LoadNext]_vars

\* configurations register makes no table entry for: a kind that needs no
\* registration or has none yet, or a required field that is missing or
\* refused
UnregistrableConfigs ==
  {ManualConfig,
   Config("webhook", "", "", {}),
   Config("deep-link", "", "", {}),
   Config("schedule", "", "", {}),
   Config("hotkey", "", "", {}),
   Config("hotkey", "", "Cmd+Q", {}),
   FileChangeConfig({}, {}, {}, 1),
   FileChangeConfig({<<"/", "x">>}, {}, {}, 1),
   Config("power-event", "", "", {}),
   Config("power-event", "", "", {"bogus"}),
   Config("app-event", "", "", {}),
   Config("app-event", "", "", {"bogus"})}

\* triggers registered with configurations of both sorts
RejectNext ==
  \/ \E a \in AutomationIds, c \in TeardownConfigs : Register(a, c)
  \/ \E a \in AutomationIds :
       Register(a, FileChangeConfig({<<"/", "w">>}, {}, {}, 2))
  \/ \E a \in AutomationIds, c \in UnregistrableConfigs : Register(a, c)
  \/ \E c \in Conditions : Occurs(c)

RejectSpec == Init /\ [][RejectNext]_vars

\* runs started by triggers: a1 is given a trigger before the manager
\* starts, may be deleted later, and the host keeps signalling
FireNext ==
  \/ \E c \in {Config("hotkey", "", "Cmd+Shift+A", {}),
                Config("power-event", "", "", {"suspend", "resume"})} :
       lifecycle = "constructed"
         /\ UpdateAutomation("a1", [triggerConfig |-> c])
  \/ Initialize
  \/ \E c \in Conditions : ExecuteBound /\ Fire(c)
  \/ \E r \in RunIds, ok \in BOOLEAN : CreateSessionSettles(r, ok)
  \/ \E r \in RunIds, ok \in BOOLEAN : SetSessionSourcesSettles(r, ok)
  \/ \E r \in RunIds, ok \in BOOLEAN : SendMessageSettles(r, ok)
  \/ \E t \in {"complete", "error"}, sid \in SessionIds : SessionEvent(t, sid)
  \/ \E r \in RunIds : TimerFires(r)
  \/ \E a \in AutomationIds : Delete(a)

FireSpec == Init /\ [][FireNext]_vars

\* timeoutSeconds: left out, zero, and two positive numbers of seconds
TimeoutInputs == {Undefined, 0, 1, 2}

\* runs of a1 while its action configuration is edited
TimeoutNext ==
  \/ \E t \in TimeoutInputs :
       UpdateAutomation("a1", [actionConfig |-> ActionConfig(TRUE, t)])
  \/ Initialize
  \/ ExecuteBound /\ Execute("ws1", "a1", "manual")
  \/ \E r \in RunIds, ok \in BOOLEAN : CreateSessionSettles(r, ok)
  \/ \E r \in RunIds, ok \in BOOLEAN : SetSessionSourcesSettles(r, ok)
  \/ \E r \in RunIds, ok \in BOOLEAN : SendMessageSettles(r, ok)
  \/ \E t \in {"complete", "error"}, sid \in SessionIds : SessionEvent(t, sid)
  \/ \E r \in RunIds : TimerFires(r)

TimeoutSpec == Init /\ [][TimeoutNext]_vars

\* the store alone: a1 is edited and has runs accounted to it, a2 is
\* created or made as a copy
CopyNext ==
  \/ \E i \in CreateInputs({ManualConfig}) \cup
               {[triggerConfig |-> ManualConfig, enabled |-> FALSE]} :
       CreateAutomation("a2", i)
  \/ \E i \in {[enabled |-> b] : b \in BOOLEAN} \cup
               {[triggerConfig |-> Config("hotkey", "", "Cmd+Shift+A", {})],
                [actionConfig |-> ActionConfig(FALSE, 2)]} :
       UpdateAutomation("a1", i)
  \/ \E a \in AutomationIds : \E run \in FinishedRuns(a) : AfterRun(a, run)
  \/ \E id \in AutomationIds, a \in AutomationIds : Duplicate(id, a)

CopySpec == Init /\ [][CopyNext]_vars

\* the store alone: automations are created and runs are accounted to them
StatsNext ==
  \/ \E a \in AutomationIds, i \in CreateInputs({ManualConfig}) :
       CreateAutomation(a, i)
  \/ \E a \in AutomationIds : \E run \in FinishedRuns(a) : AfterRun(a, run)
  \/ \E t \in 1..MaxClock : Advance(t)

StatsSpec == Init /\ [][StatsNext]_vars

\* ------------------------------------------------------------- claims
Unfinished == {r \in DOMAIN runs : runs[r].status \in {"pending", "running"}}

Terminal(r) == r \in DOMAIN runs /\ runs[r].status \in TerminalStatuses

\* C1: the runs admitted and not yet finalized (status pending or running)
\* never number more than maxConcurrentRuns, whatever the interleaving of
\* executeAutomation calls.
AdmittedRunsWithinLimit == Cardinality(Unfinished) <= maxConcurrentRuns

\* C2: once a run record's status is success, failure or cancelled, no later
\* step changes its status, completedAt or error.
TerminalRunsImmutable ==
  [][\A r \in DOMAIN runs :
       (runs[r].status \in TerminalStatuses /\ r \in DOMAIN runs')
         => /\ runs'[r].status = runs[r].status
            /\ runs'[r].completedAt = runs[r].completedAt
            /\ runs'[r].error = runs[r].error]_vars

\* C3: an existing automation's runCount equals the number of its runs that
\* have reached a terminal state.
RunCountMatchesTerminalRuns ==
  \A a \in DOMAIN automations :
    automations[a].runCount =
      Cardinality({r \in DOMAIN runs :
                     runs[r].automationId = a /\ Terminal(r)})

\* C4 as stated: every run record created by executeAutomation eventually has
\* a terminal status persisted.
EveryRunRecordEventuallyTerminal ==
  \A r \in RunIds : (r \in DOMAIN runs) ~> Terminal(r)

\* C4 as amended: every run record created by executeAutomation eventually
\* has a terminal status persisted or has been deleted with its automation.
EveryRunEventuallyTerminalOrDeleted ==
  \A r \in RunIds : (r \in DOMAIN runs) ~> (Terminal(r) \/ r \notin DOMAIN runs)

EveryRunWitness ==
  \E r \in DOMAIN runs :
    /\ Terminal(r)
    /\ runs[r].error = TimedOutMsg
    /\ calls[r].pc = "returned"

\* C5: an executeAutomation call made when activeRuns.size >= maxConcurrentRuns
\* is rejected and leaves the whole state as it was: no run record, no
\* broadcast, no request to the session manager, tables and statistics
\* unchanged.
RejectedExecuteLeavesNoTrace ==
  \A w \in Workspaces, a \in DOMAIN automations, t \in TriggeredByInputs :
    AdmissionFull(This) =>
      LET m == executeAutomation(This, w, a, t) IN
      /\ m.result = "Concurrency limit reached"
      /\ [m EXCEPT !.result = NULL] = This

RejectedExecuteWitness ==
  /\ lifecycle = "initialized"
  /\ "a1" \in DOMAIN automations
  /\ AdmissionFull(This)
  /\ executeAutomation(This, "ws1", "a1", "manual").result
       = "Concurrency limit reached"

\* C6: executeAutomation is rejected only when at least maxConcurrentRuns
\* runs are unfinished (status pending or running).
RejectedOnlyWhenRunsUnfinished ==
  AdmissionFull(This) => Cardinality(Unfinished) >= maxConcurrentRuns

\* C7: when the timer of a run whose status is running fires, the run is
\* persisted as failure with error "Automation timed out" and leaves the
\* active-run table and the work-unit index.
TimeoutFinalizesRunningRun ==
  [][\A r \in DOMAIN runs :
       (runs[r].status = "running" /\ timers[r] = "armed"
          /\ timers'[r] = "fired")
         => /\ r \in DOMAIN runs'
            /\ runs'[r].status = "failure"
            /\ runs'[r].error = TimedOutMsg
            /\ runs'[r].completedAt # NoTime
            /\ r \notin DOMAIN activeRuns'
            /\ runs[r].sessionId \notin DOMAIN sessionToRun']_vars

TimeoutWitness ==
  \E r \in DOMAIN runs :
    /\ timers[r] = "fired"
    /\ runs[r].status = "failure"
    /\ runs[r].error = TimedOutMsg
    /\ r \notin DOMAIN activeRuns

\* C8: every run found in the active-run table by cleanup() has status
\* cancelled and error "App shutting down" in every later state.
ShutdownRunsStayCancelled ==
  \A r \in shutdownRuns :
    r \in DOMAIN runs =>
      /\ runs[r].status = "cancelled"
      /\ runs[r].error = ShutdownMsg

\* C9: a complete or error notification for the work unit of a run that is
\* already finalized changes nothing.
LateNotificationIsNoOp ==
  \A r \in DOMAIN runs, t \in {"complete", "error"} :
    (Terminal(r) /\ runs[r].sessionId # NoSession)
      => handleSessionEvent(This, t, runs[r].sessionId) = This

\* C10: the trigger table holds one RegisteredTrigger per automation id at
\* most, every live subscription is the single one its owner's table entry
\* holds, and after register(A') for an id, whatever was registered before,
\* one occurrence of a condition A' subscribes to calls onTrigger for that id
\* exactly once and any other condition calls it not at all.
SubscribedConditions(config) ==
  CASE config.type = "schedule" ->
         {<<"cron", config.cron>>} \cap Conditions
    [] config.type = "hotkey" ->
         {<<"hotkey", config.accelerator>>} \cap Conditions
    [] config.type = "power-event" ->
         {<<"power", e>> : e \in config.events} \cap Conditions
    [] config.type = "app-event" ->
         {<<"app", electronEvent(e)>> : e \in config.events \ {"app-ready"}}
    [] OTHER -> {}

CallsFor(m, automationId) ==
  BagCardinality([c \in {x \in BagToSet(m.fired) :
                            x.automationId = automationId}
                    |-> CopiesIn(c, m.fired)])

RegisterReplacesTrigger ==
  /\ \A s \in BagToSet(subscriptions) :
       /\ CopiesIn(s, subscriptions) = 1
       /\ s.automationId \in DOMAIN triggers
       /\ s \in triggers[s.automationId].listeners
  /\ \A a \in DOMAIN triggers : triggers[a].automationId = a
  /\ \A a \in AutomationIds, config \in TriggerConfigs, c \in Conditions :
       LET m == register(This, [id |-> a, triggerConfig |-> config])
           after == occurrence([m EXCEPT !.fired = EmptyBag], c) IN
       CallsFor(after, a) =
         IF a \in DOMAIN m.triggers /\ c \in SubscribedConditions(config)
         THEN 1 ELSE 0

RegisterReplacesWitness ==
  /\ "a1" \in DOMAIN triggers
  /\ triggers["a1"].type = "hotkey"
  /\ CopiesIn([automationId |-> "a1", triggeredBy |-> "power-event"], fired) = 1
  /\ CopiesIn([automationId |-> "a1", triggeredBy |-> "hotkey"], fired) = 1

\* C13: cancelRun on a run id that is not in activeRuns returns false and
\* leaves the state as it was: no request to the session manager, no record
\* written, no broadcast, tables unchanged.
CancelOfInactiveRunIsNoOp ==
  \A r \in RunIds :
    r \notin DOMAIN activeRuns => cancelRun(This, r) = Returns(This, "false")

CancelOfInactiveRunWitness ==
  /\ lifecycle = "initialized"
  /\ \E r \in DOMAIN runs :
       /\ Terminal(r)
       /\ r \notin DOMAIN activeRuns
       /\ cancelRun(This, r).result = "false"

\* C14: when a cancelRun invoked on an active run returns true, the run's
\* persisted status is cancelled and the run is not in activeRuns.
CancelRunTrueMeansCancelled ==
  \A r \in RunIds :
    cancels[r] = "cancelProcessing" =>
      LET m == cancelProcessingSettled(This, r, TRUE) IN
      m.result = "true" =>
        /\ r \in DOMAIN m.runs
        /\ m.runs[r].status = "cancelled"
        /\ r \notin DOMAIN m.activeRuns

\* C15: a run's persisted status is running only after createSession and
\* sendMessage have both succeeded, so a run whose setup fails is never
\* persisted as running.
RunningOnlyAfterDelivery ==
  \A r \in DOMAIN runs :
    runs[r].status = "running" => calls[r].pc = "returned"

\* the awaited setup step of the call that owns run r rejects
SetupStepRejects(r) ==
  CASE calls[r].pc = "createSession" -> createSessionSettled(This, r, FALSE)
    [] calls[r].pc = "setSessionSources" ->
         setSessionSourcesSettled(This, r, FALSE)
    [] calls[r].pc = "sendMessage" -> sendMessageSettled(This, r, FALSE)

SetupPending(r) ==
  calls[r].pc \in {"createSession", "setSessionSources", "sendMessage"}

FailurePersisted(m, r) ==
  /\ r \in DOMAIN m.runs
  /\ m.runs[r].status = "failure"
  /\ m.runs[r].error = m.result
  /\ m.runs[r].completedAt # NoTime
  /\ Len(m.broadcasts[r]) > Len(broadcasts[r])
  /\ \E i \in (Len(broadcasts[r]) + 1)..Len(m.broadcasts[r]) :
       m.broadcasts[r][i] = Ev("run_failed", m.runs[r])

\* C16 as stated: when an awaited setup step of executeAutomation rejects,
\* the call ends with the run persisted as failure with the captured error
\* and a completedAt, a run_failed broadcast carrying that record, and the
\* error re-raised.
SetupFailurePersistsFailure ==
  \A r \in RunIds :
    SetupPending(r) =>
      LET m == SetupStepRejects(r) IN
      /\ m.calls[r].pc = "threw"
      /\ m.result \in {CreateSessionErr, SetSourcesErr, SendMessageErr}
      /\ FailurePersisted(m, r)

\* C16 as amended: the same provided the run's record still exists; when the
\* record was deleted with its automation while the call was suspended,
\* nothing is persisted or broadcast and the error is still re-raised.
SetupFailurePersistsFailureUnlessDeleted ==
  \A r \in RunIds :
    SetupPending(r) =>
      LET m == SetupStepRejects(r) IN
      /\ m.calls[r].pc = "threw"
      /\ m.result \in {CreateSessionErr, SetSourcesErr, SendMessageErr}
      /\ IF r \in DOMAIN runs THEN FailurePersisted(m, r)
         ELSE /\ m.runs = runs
              /\ m.broadcasts = broadcasts
              /\ m.automations = automations

SetupFailureWitness ==
  \E r \in DOMAIN runs :
    /\ calls[r].pc = "threw"
    /\ runs[r].status = "failure"
    /\ runs[r].error = SendMessageErr
    /\ Ev("run_failed", runs[r]) = broadcasts[r][Len(broadcasts[r]) - 1]

\* C17: executeAutomation with an unknown workspace or an unknown automation
\* id fails and leaves the whole state as it was.
UnknownTargetLeavesNoTrace ==
  \A w \in WorkspaceInputs, a \in AutomationIds, t \in TriggeredByInputs :
    (w \notin Workspaces \/ a \notin DOMAIN automations) =>
      LET m == executeAutomation(This, w, a, t) IN
      /\ m.result \in {"Workspace not found", "Automation not found"}
      /\ [m EXCEPT !.result = NULL] = This

UnknownTargetWitness ==
  /\ lifecycle = "initialized"
  /\ DOMAIN activeRuns # {}
  /\ executeAutomation(This, "ws1", "a2", "manual").result
       = "Automation not found"
  /\ executeAutomation(This, "nows", "a1", "manual").result
       = "Workspace not found"

\* what a notification leaves of every run other than r
OtherRunsUntouched(m, r) ==
  /\ \A q \in DOMAIN runs \ {r} : q \in DOMAIN m.runs /\ m.runs[q] = runs[q]
  /\ DOMAIN m.runs \subseteq DOMAIN runs
  /\ \A q \in RunIds \ {r} :
       /\ m.timers[q] = timers[q]
       /\ m.broadcasts[q] = broadcasts[q]
       /\ (q \in DOMAIN m.activeRuns) = (q \in DOMAIN activeRuns)
  /\ m.calls = calls
  /\ m.cancels = cancels

NotificationRouted(m, type, sessionId) ==
  type \in {"complete", "error"} /\ sessionId \in DOMAIN sessionToRun

LinkedRunFinalized(m, type, r) ==
  /\ r \in DOMAIN m.runs
  /\ m.runs[r].status = (IF type = "complete" THEN "success" ELSE "failure")
  /\ m.runs[r].error = (IF type = "complete" THEN NULL ELSE SessionErr)
  /\ m.runs[r].completedAt # NoTime

\* C18 as stated: a notification of another kind or for a work unit not in
\* sessionToRun leaves all state unchanged; a complete notification
\* finalizes exactly the linked run as success and an error notification
\* finalizes exactly the linked run as failure with the carried message; no
\* other run is affected.
NotificationFinalizesLinkedRun ==
  \A type \in EventTypes, sessionId \in {NoSession} \cup SessionIds :
    LET m == handleSessionEvent(This, type, sessionId) IN
    IF ~NotificationRouted(m, type, sessionId) THEN m = This
    ELSE LET r == sessionToRun[sessionId] IN
      /\ LinkedRunFinalized(m, type, r)
      /\ r \notin DOMAIN m.activeRuns
      /\ sessionId \notin DOMAIN m.sessionToRun
      /\ OtherRunsUntouched(m, r)

\* C18 as amended: the same, except that when the linked run's record was
\* deleted with its automation the notification persists nothing and only
\* removes the run from activeRuns and sessionToRun.
NotificationFinalizesLinkedRunUnlessDeleted ==
  \A type \in EventTypes, sessionId \in {NoSession} \cup SessionIds :
    LET m == handleSessionEvent(This, type, sessionId) IN
    IF ~NotificationRouted(m, type, sessionId) THEN m = This
    ELSE LET r == sessionToRun[sessionId] IN
      /\ IF r \in DOMAIN runs THEN LinkedRunFinalized(m, type, r)
         ELSE m.runs = runs /\ m.automations = automations
                /\ m.broadcasts = broadcasts
      /\ r \notin DOMAIN m.activeRuns
      /\ sessionId \notin DOMAIN m.sessionToRun
      /\ OtherRunsUntouched(m, r)

NotificationWitness ==
  /\ Cardinality(DOMAIN runs) = 2
  /\ \E r \in DOMAIN runs, q \in DOMAIN activeRuns :
       /\ r # q
       /\ runs[r].status = "failure"
       /\ runs[r].error = SessionErr
       /\ r \notin DOMAIN activeRuns
       /\ runs[q].status = "running"

\* the live subscriptions whose callback names automation a
SubscriptionsOf(m, a) ==
  {x \in BagToSet(m.subscriptions) : x.automationId = a}

\* the trigger of a is the one register makes from config, and nothing else
\* of a is live
RegisteredFrom(m, a, config) ==
  /\ \A x \in SubscriptionsOf(m, a) : CopiesIn(x, m.subscriptions) = 1
  /\ IF a \in DOMAIN m.triggers
     THEN /\ m.triggers[a].type = config.type
          /\ SubscriptionsOf(m, a) =
               {Subscription(a, config.type, c) :
                  c \in SubscribedConditions(config)}
     ELSE SubscriptionsOf(m, a) = {}

RefreshOutcome(m, a) ==
  IF a \in DOMAIN automations /\ automations[a].enabled
  THEN RegisteredFrom(m, a, automations[a].triggerConfig)
  ELSE a \notin DOMAIN m.triggers /\ SubscriptionsOf(m, a) = {}

\* C19 as stated: after refreshTrigger(workspaceId, automationId) a trigger
\* is registered only if the automation exists and is enabled; when it is
\* missing or disabled the table entry is absent, and when it exists and is
\* enabled the trigger is the one registered from the current triggerConfig.
RefreshMatchesStoredAutomation ==
  \A w \in WorkspaceInputs, a \in AutomationIds :
    LET m == refreshTrigger(This, w, a) IN
    IF w \in Workspaces THEN RefreshOutcome(m, a)
    ELSE a \notin DOMAIN m.triggers

\* C19 as amended: the same when workspaceId resolves to a workspace; with
\* an unknown workspaceId refreshTrigger changes nothing.
RefreshMatchesStoredAutomationInKnownWorkspace ==
  \A w \in WorkspaceInputs, a \in AutomationIds :
    LET m == refreshTrigger(This, w, a) IN
    IF w \in Workspaces THEN RefreshOutcome(m, a)
    ELSE m = This

RefreshWitness ==
  /\ "a1" \in DOMAIN triggers
  /\ triggers["a1"].type = "power-event"
  /\ "a1" \in DOMAIN automations
  /\ automations["a1"].triggerConfig.type = "hotkey"
  /\ automations["a1"].enabled
  /\ "a1" \in DOMAIN refreshTrigger(This, "ws1", "a1").triggers
  /\ refreshTrigger(This, "ws1", "a1").triggers["a1"].type = "hotkey"

\* the fs.watch reports the closure of a registered file-change trigger
\* buffers: on a path it watches and through its pattern and event filters
Buffers(a, e) ==
  LET closure == closures[a] IN
  /\ Subscription(a, "file-change", <<"fs", e.watchPath>>)
       \in triggers[a].listeners
  /\ \/ closure.patterns = {}
     \/ e.filename = NullFilename
     \/ \E pattern \in closure.patterns : matchesPattern(pattern, e.filename)
  /\ \/ closure.events = {}
     \/ (IF e.eventType = "rename" THEN "add" ELSE "change")
          \in closure.events

Arrivals(a) == SelectSeq(emitted, LAMBDA e : Buffers(a, e))

AsChange(e) ==
  [path |-> e.watchPath \o <<"/">> \o template(e.filename),
   event |-> e.eventType]

RECURSIVE Flatten(_)
Flatten(lists) ==
  IF lists = <<>> THEN <<>> ELSE Head(lists) \o Flatten(Tail(lists))

\* the changes lists handed to onTrigger for a, oldest first
Fires(a) ==
  SelectSeq(contexts, LAMBDA c : c.automationId = a
                                   /\ c.triggeredBy = "file-change")

\* the place in Arrivals(a) of the last change of the k-th fire
LastOf(a, k) ==
  Len(Flatten([i \in 1..k |-> Fires(a)[i].context.changes]))

\* C11: while a file-change trigger stays registered, its fires carry the
\* buffered events each once and in arrival order, each fire comes
\* debounceMs after the last event it carries, events closer than
\* debounceMs to their predecessor never start a new fire, and what has
\* not fired yet is pending behind an armed timer due debounceMs after the
\* last arrival.
DebounceFiresOncePerBurst ==
  \A a \in DOMAIN triggers :
    triggers[a].type = "file-change" =>
      LET closure == closures[a]
          arrivals == Arrivals(a)
          fires == Fires(a)
          flushed == Flatten([i \in 1..Len(fires) |->
                                fires[i].context.changes]) IN
      /\ flushed \o closure.pendingChanges
           = [i \in 1..Len(arrivals) |-> AsChange(arrivals[i])]
      /\ \A k \in 1..Len(fires) :
           /\ fires[k].context.changes # <<>>
           /\ fires[k].context.firedAt
                = arrivals[LastOf(a, k)].at + closure.debounceMs
           /\ LastOf(a, k) < Len(arrivals) =>
                arrivals[LastOf(a, k) + 1].at - arrivals[LastOf(a, k)].at
                  >= closure.debounceMs
      /\ IF closure.pendingChanges = <<>>
         THEN closure.debounceTimer = NoTime
         ELSE closure.debounceTimer
                = arrivals[Len(arrivals)].at + closure.debounceMs

\* two events of one burst and a later one have come out as two fires
DebounceWitness ==
  /\ "a1" \in DOMAIN triggers
  /\ triggers["a1"].type = "file-change"
  /\ closures["a1"].debounceMs = 2
  /\ Len(Arrivals("a1")) = 3
  /\ Arrivals("a1")[2].at = Arrivals("a1")[1].at + 1
  /\ Len(Fires("a1")) = 2
  /\ Len(Fires("a1")[1].context.changes) = 2
  /\ Fires("a1")[1].context.firedAt = Arrivals("a1")[2].at + 2

\* a poll of the clipboard trigger of a fires
PollFires(a) ==
  LET m == pollClipboard(This, a) IN
  /\ CallsFor(m, a) = CallsFor(This, a) + 1
  /\ Len(m.contexts) = Len(contexts) + 1
  /\ m.contexts[Len(m.contexts)].automationId = a
  /\ m.contexts[Len(m.contexts)].triggeredBy = "clipboard"

PollIsSilent(a) ==
  LET m == pollClipboard(This, a) IN
  m.fired = fired /\ m.contexts = contexts

\* what a registered clipboard trigger has observed is what the clipboard
\* held at its registration or at its latest poll
PollObserves(a) ==
  /\ pollClipboard(This, a).pollers[a].lastContent = clipboard
  /\ \A c \in ClipboardConfigs :
       register(This, [id |-> a, triggerConfig |-> c]).pollers[a].lastContent
         = clipboard

ClipboardTriggers ==
  {a \in DOMAIN triggers : triggers[a].type = "clipboard"}

Silenced(m, a) ==
  /\ SubscriptionsOf(m, a) = {}
  /\ a \in DOMAIN m.closures => m.closures[a].debounceTimer = NoTime

\* the callbacks received for automation a, with their contexts
Callbacks(m, a) ==
  <<CallsFor(m, a), SelectSeq(m.contexts, LAMBDA c : c.automationId = a)>>

\* C20: an automation that has no entry in the trigger table (after
\* unregister, unregisterAll or cleanup, until it is registered again) has
\* no live job, shortcut, listener, watcher, interval or debounce timer,
\* and no step of the host produces a callback for it; changes it had
\* buffered are never fired.
NoCallbackAfterTeardown ==
  [][\A a \in AutomationIds :
       /\ a \notin DOMAIN triggers' =>
            Silenced([subscriptions |-> subscriptions',
                      closures |-> closures'], a)
       /\ (a \notin DOMAIN triggers /\ a \notin DOMAIN triggers') =>
            Callbacks([fired |-> fired', contexts |-> contexts'], a)
              = Callbacks(This, a)]_vars

\* a file-change trigger was torn down with changes buffered, and the
\* moment its debounce timer was due has passed
TeardownWitness ==
  /\ "a1" \notin DOMAIN triggers
  /\ "a1" \in DOMAIN closures
  /\ closures["a1"].pendingChanges # <<>>
  /\ emitted # <<>>
  /\ emitted[Len(emitted)].at + closures["a1"].debounceMs < now

\* C21: unregister(id) on an id without a table entry changes nothing, and
\* a second unregister(id) leaves the table and the live subscriptions as
\* the first left them.
UnregisterIsIdempotent ==
  \A a \in AutomationIds :
    LET once == unregister(This, a)
        twice == unregister(once, a) IN
    /\ a \notin DOMAIN triggers => once = This
    /\ twice.triggers = once.triggers
    /\ twice.subscriptions = once.subscriptions
    /\ twice = once

\* one automation has an entry to remove while the other has none
UnregisterIdempotentWitness ==
  /\ "a1" \in DOMAIN triggers
  /\ "a2" \notin DOMAIN triggers
  /\ SubscriptionsOf(This, "a1") # {}
  /\ unregister(This, "a1") # This

\* the subscriptions a successful registration of config makes for a
ExpectedSubscriptions(a, config) ==
  CASE config.type = "file-change" ->
         {Subscription(a, "file-change", <<"fs", path>>) :
            path \in config.paths \cap ExistingPaths}
    [] config.type = "clipboard" ->
         {Subscription(a, "clipboard", <<"interval", a>>)}
    [] OTHER ->
         {Subscription(a, config.type, c) : c \in SubscribedConditions(config)}

\* the shortcut of a is held by another automation loaded before it
ShortcutHeld(a) ==
  \E b \in DOMAIN triggers \ {a} :
    /\ triggers[b].type = "hotkey"
    /\ triggers[b].accelerator = automations[a].triggerConfig.accelerator

\* registering the trigger of a fails, or its kind is never registered
Unregistrable(a, brokenPatternFails) ==
  LET config == automations[a].triggerConfig IN
  CASE config.type = "schedule" -> config.cron \notin ValidCrons
    [] config.type = "hotkey" ->
         \/ config.accelerator = ""
         \/ config.accelerator \in TakenAccelerators
         \/ ShortcutHeld(a)
    [] config.type = "power-event" -> config.events \cap PowerEvents = {}
    [] config.type = "app-event" ->
         config.events \cap {"app-ready", "window-focus", "window-blur"} = {}
    [] config.type = "file-change" -> config.paths \cap ExistingPaths = {}
    [] config.type = "clipboard" ->
         brokenPatternFails /\ config.pattern \notin ValidRegexes \cup {""}
    [] OTHER -> TRUE

LoadedAsStored(brokenPatternFails) ==
  lifecycle = "initialized" =>
    /\ \A x \in BagToSet(subscriptions) :
         /\ CopiesIn(x, subscriptions) = 1
         /\ x.automationId \in DOMAIN automations
    /\ \A a \in DOMAIN automations :
         IF automations[a].enabled /\ ~Unregistrable(a, brokenPatternFails)
         THEN /\ a \in DOMAIN triggers
              /\ triggers[a].type = automations[a].triggerConfig.type
              /\ SubscriptionsOf(This, a)
                   = ExpectedSubscriptions(a, automations[a].triggerConfig)
         ELSE a \notin DOMAIN triggers /\ SubscriptionsOf(This, a) = {}

TerminalKind(status) ==
  CASE status = "success" -> "run_completed"
    [] status = "failure" -> "run_failed"
    [] status = "cancelled" -> "run_cancelled"

\* the places of the terminal broadcasts among those sent for run r
TerminalBroadcasts(r) ==
  {i \in 1..Len(broadcasts[r]) :
     broadcasts[r][i].type \in {"run_completed", "run_failed", "run_cancelled"}}

\* C23: every run whose record is terminal has had exactly one terminal
\* broadcast, of the kind of its final status and carrying that record,
\* sent after its run_started broadcast.
TerminalRunBroadcastOnce ==
  \A r \in DOMAIN runs :
    Terminal(r) =>
      /\ Cardinality(TerminalBroadcasts(r)) = 1
      /\ \A i \in TerminalBroadcasts(r) :
           /\ broadcasts[r][i].type = TerminalKind(runs[r].status)
           /\ broadcasts[r][i].status = runs[r].status
           /\ broadcasts[r][i].error = runs[r].error
           /\ \E j \in 1..(i - 1) : broadcasts[r][j].type = "run_started"

\* C24: generateId never repeats an id, so a deleted automation stays
\* absent from the store; no run record names an automation that is not in
\* the store, whatever was pending or active when it was deleted.
DeletedAutomationHasNoRuns ==
  \A r \in DOMAIN runs : runs[r].automationId \in DOMAIN automations

\* the automation was deleted while a run of it was active, and shutdown
\* has since gone through its cancellation of that run
DeletedAutomationWitness ==
  /\ "a1" \notin DOMAIN automations
  /\ lifecycle = "cleaned"
  /\ shutdownRuns # {}
  /\ \E r \in RunIds : calls[r].pc = "threw"

\* C25: once a run's record is terminal its timeout timer does nothing
\* any more: should the timer still run out, the handler writes no record,
\* no statistics and sends no broadcast.
FinalizedRunNeverTimesOut ==
  \A r \in RunIds :
    (Terminal(r) /\ timers[r] = "armed") =>
      LET m == handleTimeout([This EXCEPT !.timers[r] = "fired"], r) IN
      /\ m.runs = runs
      /\ m.automations = automations
      /\ m.broadcasts = broadcasts

\* the three handlers that race to finalize run r, with the status each
\* would give it
Finalizers(r) ==
  {<<cancelProcessingSettled(This, r, TRUE), "cancelled">>,
   <<handleTimeout(This, r), "failure">>,
   <<handleSessionEvent(This, "complete", SessionOf(r)), "success">>,
   <<handleSessionEvent(This, "error", SessionOf(r)), "failure">>}

\* C26: of an explicit cancel, a complete or error notification and a
\* timeout for the same run, the one that runs while the run is in the
\* active table gives the record its status and takes the run out of the
\* table; one that runs when the run is no longer there writes no record,
\* counts no run and broadcasts nothing.
FirstFinalizeWins ==
  \A r \in RunIds :
    \A f \in Finalizers(r) :
      IF r \in DOMAIN activeRuns
      THEN /\ r \notin DOMAIN f[1].activeRuns
           /\ r \in DOMAIN runs => f[1].runs[r].status = f[2]
      ELSE /\ f[1].runs = runs
           /\ f[1].automations = automations
           /\ f[1].broadcasts = broadcasts

\* a notification finalized the run while its cancelRun was waiting for
\* cancelProcessing
FirstFinalizeWitness ==
  \E r \in RunIds :
    /\ cancels[r] = "cancelProcessing"
    /\ r \notin DOMAIN activeRuns
    /\ Terminal(r)
    /\ runs[r].status = "success"

\* C27: every entry of activeRuns is for a run whose record says running.
ActiveRunsAreRunning ==
  \A r \in DOMAIN activeRuns :
    r \in DOMAIN runs /\ runs[r].status = "running"

\* C28: cancelRun on an active run finalizes it as cancelled and takes it
\* out of activeRuns whether cancelProcessing resolves or rejects.
CancelRunIsBestEffort ==
  \A r \in DOMAIN activeRuns :
    cancels[r] = "cancelProcessing" =>
      \A ok \in BOOLEAN :
        LET m == cancelProcessingSettled(This, r, ok) IN
        /\ r \notin DOMAIN m.activeRuns
        /\ r \in DOMAIN runs => m.runs[r].status = "cancelled"

\* C29: a run record has no completedAt exactly while its status is
\* pending or running.
CompletedAtIffTerminal ==
  \A r \in DOMAIN runs :
    (runs[r].completedAt = NoTime)
      <=> (runs[r].status \in {"pending", "running"})

\* a pending record beside one that shutdown has cancelled
CompletedAtWitness ==
  /\ \E r \in DOMAIN runs :
       runs[r].status = "pending" /\ runs[r].completedAt = NoTime
  /\ \E r \in DOMAIN runs :
       /\ runs[r].status = "cancelled"
       /\ runs[r].error = ShutdownMsg
       /\ runs[r].completedAt # NoTime

\* C30: accounting a finished run to a stored automation sets lastStatus to
\* success or failure for such a run and keeps it for a cancelled one, sets
\* lastRunAt to the run's completion time (its start time when it has none),
\* adds one to runCount, and leaves every other automation as it was.
AfterRunUpdatesStatistics ==
  \A a \in DOMAIN automations :
    \A run \in FinishedRuns(a) :
      LET after == updateAutomationAfterRun(automations, a, run, now) IN
      /\ DOMAIN after = DOMAIN automations
      /\ after[a].lastStatus =
           (IF run.status = "cancelled" THEN automations[a].lastStatus
            ELSE run.status)
      /\ after[a].lastRunAt =
           (IF run.completedAt = NoTime THEN run.startedAt
            ELSE run.completedAt)
      /\ after[a].runCount = automations[a].runCount + 1
      /\ \A b \in DOMAIN automations \ {a} : after[b] = automations[b]

\* a1 has a success and then a cancelled run behind it, a2 only a cancelled
\* one, and a further run can still be accounted to either
AfterRunWitness ==
  /\ DOMAIN automations = AutomationIds
  /\ automations["a1"].lastStatus = "success"
  /\ automations["a1"].runCount = 2
  /\ automations["a1"].lastRunAt # NoTime
  /\ automations["a2"].lastStatus = NULL
  /\ automations["a2"].runCount = 1
  /\ automations["a2"].lastRunAt # NoTime
  /\ now > 0

\* C31: once cleanup has returned, the active-run table and the session
\* index are empty and stay so, and no timeout timer is armed, also when a
\* call of executeAutomation that was awaiting createSession resumes later.
NothingTrackedAfterCleanup ==
  lifecycle = "cleaned" =>
    /\ activeRuns = <<>>
    /\ sessionToRun = <<>>
    /\ \A r \in RunIds : timers[r] # "armed"

\* C32: sessionToRun maps session s to run r exactly when activeRuns holds
\* r with session s; the two tables have the same size and no two active
\* runs share a session.
TablesAgree ==
  /\ \A sid \in DOMAIN sessionToRun :
       /\ sessionToRun[sid] \in DOMAIN activeRuns
       /\ activeRuns[sessionToRun[sid]].sessionId = sid
  /\ \A r \in DOMAIN activeRuns :
       /\ activeRuns[r].sessionId \in DOMAIN sessionToRun
       /\ sessionToRun[activeRuns[r].sessionId] = r
  /\ Cardinality(DOMAIN sessionToRun) = Cardinality(DOMAIN activeRuns)
  /\ \A r1, r2 \in DOMAIN activeRuns :
       activeRuns[r1].sessionId = activeRuns[r2].sessionId => r1 = r2

\* shutdown has emptied the tables of a run it cancelled, and a call that
\* resumed afterwards has entered another run in both
TablesAgreeWitness ==
  /\ lifecycle = "cleaned"
  /\ shutdownRuns # {}
  /\ \E r \in DOMAIN activeRuns :
       r \notin shutdownRuns /\ activeRuns[r].sessionId \in DOMAIN sessionToRun

\* the call an app-event trigger of automation a makes on the callback
AppEventCall(a) == [automationId |-> a, triggeredBy |-> "app-event"]

\* m is this state after one call for app-ready, if configured, and a
\* later host signal calls once more exactly when it is a configured event
AppReadyFiredBy(m, a, config) ==
  /\ m.fired = fired (+) (IF "app-ready" \in config.events
                          THEN SetToBag({AppEventCall(a)}) ELSE EmptyBag)
  /\ \A c \in Conditions :
       LET after == occurrence(m, c) IN
       CopiesIn(AppEventCall(a), after.fired)
         - CopiesIn(AppEventCall(a), m.fired) =
           IF c \in {<<"app", electronEvent(e)>> :
                       e \in config.events \ {"app-ready"}}
           THEN 1 ELSE 0

\* C33: registering an app-event trigger whose events include app-ready
\* calls the callback exactly once for that automation, with kind app-event,
\* before register returns, and so does every refreshTrigger of such a stored
\* and enabled automation; the other configured events call it only when the
\* host signals them afterwards.
AppReadyFiresAtEveryRegistration ==
  /\ \A a \in AutomationIds, events \in AppEventInputs \ {{}} :
       LET config == Config("app-event", "", "", events) IN
       AppReadyFiredBy(register(This, [id |-> a, triggerConfig |-> config]),
                       a, config)
  /\ \A a \in DOMAIN automations :
       LET config == automations[a].triggerConfig IN
       (automations[a].enabled /\ config.type = "app-event"
          /\ config.events # {}) =>
         AppReadyFiredBy(refreshTrigger(This, "ws1", a), a, config)

\* a1 is stored with app-ready and window-focus and has been registered
\* twice: the callback was called once each time
AppReadyWitness ==
  /\ "a1" \in DOMAIN automations
  /\ automations["a1"].enabled
  /\ automations["a1"].triggerConfig =
       Config("app-event", "", "", {"app-ready", "window-focus"})
  /\ "a1" \in DOMAIN triggers
  /\ triggers["a1"].type = "app-event"
  /\ CopiesIn(AppEventCall("a1"), fired) = 2
  /\ CopiesIn(Subscription("a1", "app-event",
                           <<"app", "browser-window-focus">>),
              subscriptions) = 1

\* the shortcut of config is one another automation holds
HeldByAnother(a, config) ==
  /\ config.type = "hotkey"
  /\ \E x \in BagToSet(subscriptions) :
       x.condition = <<"hotkey", config.accelerator>> /\ x.automationId # a

\* register returned normally, left no entry and no subscription for a and
\* touched nothing else
RegisteredNothing(m, a) ==
  /\ m.result = NULL
  /\ a \notin DOMAIN m.triggers
  /\ m.triggers = Remove(triggers, {a})
  /\ SubscriptionsOf(m, a) = {}
  /\ \A b \in AutomationIds \ {a} :
       SubscriptionsOf(m, b) = SubscriptionsOf(This, b)
  /\ m.fired = fired

\* C34: register does not raise and makes no table entry for a manual,
\* webhook or deep-link automation, nor for a schedule without expression, a
\* hotkey without accelerator or with a refused binding, a file-change
\* trigger with no existing path, or a power or app event trigger with no
\* recognised event; the previous entry of that id is removed all the same.
RegisterRejectsQuietly ==
  \A a \in AutomationIds :
    /\ \A config \in UnregistrableConfigs :
         RegisteredNothing(register(This, [id |-> a, triggerConfig |-> config]),
                           a)
    /\ \A config \in TeardownConfigs :
         HeldByAnother(a, config) =>
           RegisteredNothing(
             register(This, [id |-> a, triggerConfig |-> config]), a)

\* a1 had a trigger that called back and was then registered with a
\* file-change configuration whose path does not exist; a2 keeps its shortcut
RegisterRejectsWitness ==
  /\ "a1" \notin DOMAIN triggers
  /\ CallsFor(This, "a1") > 0
  /\ "a1" \in DOMAIN closures
  /\ closures["a1"].debounceMs = 1
  /\ SubscriptionsOf(This, "a1") = {}
  /\ "a2" \in DOMAIN triggers
  /\ triggers["a2"].type = "hotkey"

\* the report (eventType, filename) passes the filters of a's closure: with
\* patterns configured the filename matches one of them, with an allow-list
\* configured the kind the event type stands for is in it
PassesFilters(a, eventType, filename, nullPasses) ==
  LET closure == closures[a] IN
  /\ \/ closure.patterns = {}
     \/ nullPasses /\ filename = NullFilename
     \/ /\ filename # NullFilename
        /\ \E pattern \in closure.patterns : matchesPattern(pattern, filename)
  /\ \/ closure.events = {}
     \/ (IF eventType = "rename" THEN "add" ELSE "change") \in closure.events

\* the changes a has pending and the ones it has fired
BufferedChanges(a) ==
  {closures[a].pendingChanges[i] : i \in DOMAIN closures[a].pendingChanges}
    \cup UNION {{Fires(a)[k].context.changes[i] :
                   i \in DOMAIN Fires(a)[k].context.changes} :
                k \in DOMAIN Fires(a)}

FiltersGuardTheBatch(nullPasses) ==
  \A a \in DOMAIN triggers :
    triggers[a].type = "file-change" =>
      /\ \A change \in BufferedChanges(a) :
           \E i \in DOMAIN emitted :
             /\ AsChange(emitted[i]) = change
             /\ PassesFilters(a, emitted[i].eventType, emitted[i].filename,
                              nullPasses)
      /\ \A e \in FsEvents :
           ~PassesFilters(a, e[2], e[3], nullPasses) =>
             watcherCallback(This, a, e[1], e[2], e[3]).closures[a]
               = closures[a]

\* C35 as stated: every change a file-change trigger buffers or fires has a
\* filename matching a configured pattern and an event kind in a configured
\* allow-list, and a report failing a filter neither enters the batch nor
\* restarts the debounce timer.
BatchPassedBothFilters == FiltersGuardTheBatch(FALSE)

\* C35, amended: the same, except that a report without a filename is not
\* put to the patterns and is buffered whatever they are.
BatchPassedBothFiltersUnlessNameless == FiltersGuardTheBatch(TRUE)

\* a1 filters by pattern and by kind; of the reports so far one was dropped
\* and one without a filename is in a batch that has fired
FilterWitness ==
  /\ "a1" \in DOMAIN triggers
  /\ triggers["a1"].type = "file-change"
  /\ closures["a1"].patterns # {}
  /\ closures["a1"].events # {}
  /\ \E i \in DOMAIN emitted :
       /\ Subscription("a1", "file-change", <<"fs", emitted[i].watchPath>>)
            \in triggers["a1"].listeners
       /\ ~Buffers("a1", emitted[i])
  /\ \E i \in DOMAIN emitted :
       /\ emitted[i].filename = NullFilename
       /\ \E k \in DOMAIN Fires("a1") :
            \E j \in DOMAIN Fires("a1")[k].context.changes :
              Fires("a1")[k].context.changes[j] = AsChange(emitted[i])

\* the manager cannot execute a fire for automation a of workspace w
Refused(w, a) ==
  \/ w \notin Workspaces
  \/ a \notin DOMAIN automations
  \/ AdmissionFull(This)

\* C36: a fire the manager cannot execute (admission full, automation or
\* workspace unknown, or a setup step that rejects) is dropped: the callback
\* returns normally to the registry, nothing of the fire is kept that could
\* be run later, and every trigger stays registered.
RefusedFireIsDropped ==
  /\ \A w \in WorkspaceInputs, a \in AutomationIds,
        by \in TriggerTypes :
       LET m == triggerCallback(This, w, a, by) IN
       /\ m.result = NULL
       /\ m.triggers = triggers
       /\ m.subscriptions = subscriptions
       /\ Refused(w, a) => m = This
  /\ \A r \in RunIds :
       SetupPending(r) =>
         LET m == catchHandler(SetupStepRejects(r)) IN
         /\ m.result = NULL
         /\ m.triggers = triggers
         /\ m.subscriptions = subscriptions
         /\ m.calls[r].pc = "threw"
         /\ m.requests = {}
         /\ m.nextRunId = nextRunId
         /\ r \in DOMAIN runs => m.runs[r].status = "failure"

\* the table is full, one of its runs was started by the hotkey and failed
\* in setup, and the hotkey is still registered: its next fire is refused
RefusedFireWitness ==
  /\ lifecycle = "initialized"
  /\ AdmissionFull(This)
  /\ "a1" \in DOMAIN triggers
  /\ Subscription("a1", "hotkey", <<"hotkey", "Cmd+Shift+A">>)
       \in BagToSet(subscriptions)
  /\ \E r \in DOMAIN runs :
       /\ runs[r].triggeredBy = "hotkey"
       /\ runs[r].status = "failure"
       /\ calls[r].pc = "threw"

\* C37: the lastStatus of a stored automation is never running: it is null,
\* success or failure whatever the manager has done.
LastStatusNeverRunning ==
  \A a \in DOMAIN automations :
    /\ automations[a].lastStatus # "running"
    /\ automations[a].lastStatus \in {NULL, "success", "failure"}

\* a1 has a finished run accounted to it and another run under way
LastStatusWitness ==
  /\ "a1" \in DOMAIN automations
  /\ automations["a1"].lastStatus = "success"
  /\ automations["a1"].runCount = 1
  /\ \E r \in DOMAIN runs :
       runs[r].automationId = "a1" /\ runs[r].status = "running"

\* C38: the timer of a run is armed once, in the step that makes the run
\* running, for timeoutSeconds * 1000 ms when the timeoutSeconds the call
\* read is positive and for 300000 ms when it is left out or zero.
TimeoutArmedOnceWithDelay ==
  [][\A r \in RunIds :
       (timers'[r] = "armed" /\ timers[r] # "armed") =>
         /\ timers[r] = "none"
         /\ r \in DOMAIN runs /\ runs[r].status = "pending"
         /\ r \in DOMAIN runs' /\ runs'[r].status = "running"
         /\ r \in DOMAIN activeRuns'
         /\ LET t == calls[r].actionConfig.timeoutSeconds IN
            activeRuns'[r].timeoutMs =
              IF t # Undefined /\ t > 0 THEN t * 1000 ELSE 300000]_vars

\* runs under way with a configured, a zero and a default delay
TimeoutWitnessDelays ==
  /\ \E r \in DOMAIN activeRuns :
       /\ timers[r] = "armed"
       /\ calls[r].actionConfig.timeoutSeconds = 2
       /\ activeRuns[r].timeoutMs = 2000
  /\ \E r \in DOMAIN activeRuns :
       /\ timers[r] = "armed"
       /\ calls[r].actionConfig.timeoutSeconds = 0
       /\ activeRuns[r].timeoutMs = 300000

\* inputs of updateAutomation: one or two fields, a whole action
\* configuration, and a field the input type does not have
UpdateCases ==
  CreateInputs(LoadConfigs) \cup UpdateInputs
    \cup {[actionConfig |-> ActionConfig(TRUE, 2)],
          [enabled |-> FALSE, runCount |-> 7]}

\* C39: updateAutomation puts the given triggerConfig and actionConfig in
\* place of the stored ones as whole values, leaves the fields the input does
\* not name, except updatedAt, and every other automation as they were, and
\* for an unknown id returns null and writes nothing.
UpdateReplacesWholeFields ==
  \A a \in AutomationIds, input \in UpdateCases :
    LET m == updateAutomation(This, a, input) IN
    IF a \notin DOMAIN automations
    THEN m.result = NULL /\ [m EXCEPT !.result = NULL] = This
    ELSE
      /\ m.result # NULL
      /\ DOMAIN m.automations = DOMAIN automations
      /\ DOMAIN m.automations[a] = DOMAIN automations[a]
      /\ \A f \in {"triggerConfig", "actionConfig", "enabled"} :
           m.automations[a][f] =
             IF f \in DOMAIN input THEN input[f] ELSE automations[a][f]
      /\ \A f \in {"lastRunAt", "lastStatus", "runCount"} :
           m.automations[a][f] = automations[a][f]
      /\ m.automations[a].updatedAt = now
      /\ \A b \in DOMAIN automations \ {a} :
           m.automations[b] = automations[b]

\* a1, stored as a manual automation, has been given a hotkey, and a2 is
\* stored with a file-change configuration that an update can replace
UpdateWitness ==
  /\ DOMAIN automations = AutomationIds
  /\ automations["a1"].triggerConfig = Config("hotkey", "", "Cmd+Shift+A", {})
  /\ automations["a2"].triggerConfig.type = "file-change"
  /\ ~automations["a1"].enabled
  /\ automations["a2"].enabled

\* an automation record with no run behind it
NeverRun(automation) ==
  /\ automation.runCount = 0
  /\ automation.lastStatus = NULL
  /\ automation.lastRunAt = NoTime

\* C40: a created automation is enabled only if the input says enabled =
\* true and has run count 0 and no last status or last run time; a duplicate
\* is disabled, has an id no stored automation has and the same zero
\* statistics, and the original stays as it was.
CreatedAndDuplicatedStartClean ==
  \A id \in AutomationIds \ DOMAIN automations :
    /\ \A input \in CreateInputs(LoadConfigs) \cup
                     {[triggerConfig |-> ManualConfig, enabled |-> FALSE]} :
         LET m == createAutomation(This, id, input) IN
         /\ m.automations[id].enabled
              = ("enabled" \in DOMAIN input /\ input.enabled)
         /\ NeverRun(m.automations[id])
    /\ \A a \in DOMAIN automations :
         LET m == duplicateAutomation(This, id, a) IN
         /\ m.result = id /\ id # a
         /\ DOMAIN m.automations = DOMAIN automations \cup {id}
         /\ ~m.automations[id].enabled
         /\ NeverRun(m.automations[id])
         /\ m.automations[a] = automations[a]

\* a2 is a copy of a1, which is enabled and has runs behind it
DuplicateWitness ==
  /\ DOMAIN automations = AutomationIds
  /\ automations["a1"].enabled
  /\ automations["a1"].runCount = 2
  /\ automations["a1"].lastStatus = "success"
  /\ automations["a2"].triggerConfig = Config("hotkey", "", "Cmd+Shift+A", {})
  /\ automations["a2"].actionConfig = ActionConfig(FALSE, 2)
  /\ ~automations["a2"].enabled
  /\ NeverRun(automations["a2"])

====
